---- MODULE Spec2Model ----
(***************************************************************************)
(* A model of the alert-source configuration and validation engine of the  *)
(* CRC event simulator (src/unnamed/part_000): ConfigManager, the          *)
(* CRCSimulator registry (alert_sources), validate_field_value, the item    *)
(* operations, and simulate_event with the auto-generated items of the     *)
(* motion and the IR routine, send_event and cleanup_simulation_items.     *)
(*                                                                         *)
(* Representation.  A Python str that the program takes apart (a raw input *)
(* value, an item id, an allowed value of a list threshold) is a sequence  *)
(* of one-character strings.  A str that is only ever used as a key (a     *)
(* source name, a field name, a setting key) is a TLA+ string; Chars gives *)
(* the characters of a source name where the code slices it.  A dict is a  *)
(* function on its key set, a list a sequence.                             *)
(***************************************************************************)
EXTENDS Integers, Sequences, FiniteSets, TLC

VARIABLES
    disk,           \* the config file: [kind, doc]
    config,         \* CRCSimulator.config without its "alert_sources" entry
    alert_sources,  \* CRCSimulator.alert_sources (= config["alert_sources"])
    aliased,        \* sources whose items list is the object config["items"][k]
    links,          \* sources whose list under config["items"] still holds
                    \* item dicts of the source: for each position the
                    \* position of that item in the source's list, or 0
    crc_api_base_url, \* CRCSimulator.crc_api_base_url ("" for None)
    last,           \* what the last operation was given and how it ended
    history         \* [tracking, allocated, given]: where tracking,
                    \* allocated holds the <<source, id>> pairs given to
                    \* new items since the simulator was constructed, and
                    \* given those of the last operation

vars == <<disk, config, alert_sources, aliased, links, crc_api_base_url, last, history>>

(***************************************************************************)
(* Bounds of the model.                                                    *)
(***************************************************************************)
MaxLen == 3         \* longest raw value drawn for validate_field_value
MaxItems == 1       \* most items the item operations grow a source to
MaxIdNum == 2       \* largest item number the item operations allocate
MaxSimItems == 3    \* most items a source is grown to where events are simulated
MaxSimIdNum == 4    \* largest item number in use when an item is added there

EmptyMap == <<>>    \* {} : the function with the empty domain

\* crc_api_base_url=None, which `crc_api_url_input or None` also gives for ""
NoBaseUrl == ""

(***************************************************************************)
(* str helpers                                                             *)
(***************************************************************************)
DigitChars == <<"0", "1", "2", "3", "4", "5", "6", "7", "8", "9">>

IsDigit(c) == \E d \in 1..10 : DigitChars[d] = c

DigitVal(c) == (CHOOSE d \in 1..10 : DigitChars[d] = c) - 1

\* str.isspace() of one character, over the characters up to U+00FF: the
\* blank, tab, newline, carriage return, vertical tab, form feed, the
\* separators U+001C to U+001F, NEL (U+0085) and the no-break space (U+00A0)
IsSpace(c) ==
    c \in {" ", "\t", "\n", "\r", "\f", "", "", "", "", "",
           "", " "}


RECURSIVE LStrip(_)
LStrip(s) == IF s # <<>> /\ IsSpace(Head(s)) THEN LStrip(Tail(s)) ELSE s

RECURSIVE RStrip(_)
RStrip(s) ==
    IF s # <<>> /\ IsSpace(s[Len(s)]) THEN RStrip(SubSeq(s, 1, Len(s) - 1)) ELSE s

\* str.strip()
Strip(s) == RStrip(LStrip(s))

\* s without the characters float() and int() skip at its two ends: those
\* of IsSpace but for U+001C to U+001F, which make them raise ValueError
NumStrip(s) ==
    LET skipped(c) == IsSpace(c) /\ c \notin {"", "", "", ""}
        kept == {i \in 1..Len(s) : ~skipped(s[i])}
    IN  IF s = <<>> \/ (~skipped(s[1]) /\ ~skipped(s[Len(s)])) THEN s
        ELSE IF kept = {} THEN <<>>
        ELSE SubSeq(s, CHOOSE i \in kept : \A j \in kept : i <= j,
                       CHOOSE i \in kept : \A j \in kept : j <= i)

\* The cased letters up to U+00FF whose other case is one character up to
\* U+00FF: a to z and the thirty of Latin-1 (not the division sign), each
\* at the place of its capital in UpperChars.
LowerChars ==
    <<"a", "b", "c", "d", "e", "f", "g", "h", "i", "j", "k", "l", "m",
      "n", "o", "p", "q", "r", "s", "t", "u", "v", "w", "x", "y", "z",
      "à", "á", "â", "ã", "ä", "å", "æ", "ç", "è", "é", "ê", "ë", "ì",
      "í", "î", "ï", "ð", "ñ", "ò", "ó", "ô", "õ", "ö", "ø", "ù", "ú",
      "û", "ü", "ý", "þ">>
UpperChars ==
    <<"A", "B", "C", "D", "E", "F", "G", "H", "I", "J", "K", "L", "M",
      "N", "O", "P", "Q", "R", "S", "T", "U", "V", "W", "X", "Y", "Z",
      "À", "Á", "Â", "Ã", "Ä", "Å", "Æ", "Ç", "È", "É", "Ê", "Ë", "Ì",
      "Í", "Î", "Ï", "Ð", "Ñ", "Ò", "Ó", "Ô", "Õ", "Ö", "Ø", "Ù", "Ú",
      "Û", "Ü", "Ý", "Þ">>

\* the capital of each letter of LowerChars
ToUpper ==
    [c \in {LowerChars[i] : i \in DOMAIN LowerChars} |->
        UpperChars[CHOOSE i \in DOMAIN LowerChars : LowerChars[i] = c]]

\* U+0178, capital Y with diaeresis, written by its code point
CapitalYDiaeresis == "U+0178"

\* c.upper() of one character up to U+00FF, as a str: the sharp s becomes
\* two characters, the micro sign the Greek capital mu (U+039C), the y with
\* diaeresis U+0178
UpperChar(c) ==
    IF c \in DOMAIN ToUpper THEN <<ToUpper[c]>>
    ELSE IF c = "ß" THEN <<"S", "S">>
    ELSE IF c = "µ" THEN <<"Μ">>
    ELSE IF c = "ÿ" THEN <<CapitalYDiaeresis>>
    ELSE <<c>>

\* str.upper(), on characters up to U+00FF
RECURSIVE Upper(_)
Upper(s) == IF s = <<>> THEN <<>> ELSE UpperChar(Head(s)) \o Upper(Tail(s))

\* the small letter of each letter of UpperChars
ToLower ==
    [c \in {UpperChars[i] : i \in DOMAIN UpperChars} |->
        LowerChars[CHOOSE i \in DOMAIN UpperChars : UpperChars[i] = c]]

\* c.lower() of one character up to U+00FF
LowerChar(c) == IF c \in DOMAIN ToLower THEN ToLower[c] ELSE c

\* str.lower(), on characters up to U+00FF
Lower(s) == [i \in 1..Len(s) |-> LowerChar(s[i])]

\* the title case of one character up to U+00FF, as a str: that of the
\* sharp s is "Ss", every other is c.upper()
TitleChar(c) == IF c = "ß" THEN <<"S", "s">> ELSE UpperChar(c)

\* str.capitalize(), on characters up to U+00FF: the first character in
\* title case, the others in lower case
Capitalize(s) ==
    IF s = <<>> THEN <<>> ELSE TitleChar(Head(s)) \o Lower(Tail(s))

AllDigits(s) == \A i \in 1..Len(s) : IsDigit(s[i])

RECURSIVE DigitsVal(_)
DigitsVal(s) ==
    IF s = <<>> THEN 0
    ELSE 10 * DigitsVal(SubSeq(s, 1, Len(s) - 1)) + DigitVal(s[Len(s)])

RECURSIVE Pow10(_)
Pow10(n) == IF n = 0 THEN 1 ELSE 10 * Pow10(n - 1)

RECURSIVE NatToStr(_)
NatToStr(n) ==
    IF n < 10 THEN <<DigitChars[n + 1]>>
    ELSE NatToStr(n \div 10) \o <<DigitChars[(n % 10) + 1]>>

\* str(n) of an int
IntToStr(n) == IF n < 0 THEN <<"-">> \o NatToStr(-n) ELSE NatToStr(n)

(***************************************************************************)
(* float(value) and int(s).  Surrounding whitespace is dropped, then the   *)
(* "_" that stand between two digits.  float() takes an optional sign and  *)
(* either inf, infinity or nan in any case, or digits with at most one     *)
(* point and at least one digit, with an optional exponent (e or E, an     *)
(* optional sign, digits).  A finite value is mant * 10^exp, the decimal   *)
(* the text denotes, mant without trailing zeros; float() rounds it to the *)
(* nearest double, which the model follows where the rounding gives 0.0 or *)
(* inf.  -0.0 is the value 0.  ok is FALSE where float() raises            *)
(* ValueError.  The integers are those of TLC: at most nine digits between *)
(* the first and the last digit that is not 0, and as many in an exponent. *)
(***************************************************************************)
NotFloat == [ok |-> FALSE, kind |-> "finite", mant |-> 0, exp |-> 0]
Finite(mant, exp) == [ok |-> TRUE, kind |-> "finite", mant |-> mant, exp |-> exp]
Infinite(neg) ==
    [ok |-> TRUE, kind |-> "inf", mant |-> IF neg THEN -1 ELSE 1, exp |-> 0]
NaN == [ok |-> TRUE, kind |-> "nan", mant |-> 0, exp |-> 0]

\* the text without the "_" between its digits; ok is FALSE where some "_"
\* does not stand between two digits (float() and int() raise ValueError)
Ungrouped(t) ==
    IF \A i \in 1..Len(t) : t[i] # "_" THEN [ok |-> TRUE, text |-> t]
    ELSE LET plain(c) == c # "_" IN
         [ok |-> \A i \in 1..Len(t) :
                    t[i] = "_" => /\ 1 < i
                                  /\ i < Len(t)
                                  /\ IsDigit(t[i - 1])
                                  /\ IsDigit(t[i + 1]),
          text |-> SelectSeq(t, plain)]

\* the number of "0" at the end of the digits d
RECURSIVE TrailingZeros(_)
TrailingZeros(d) ==
    IF d # <<>> /\ d[Len(d)] = "0"
    THEN 1 + TrailingZeros(SubSeq(d, 1, Len(d) - 1)) ELSE 0

\* The double nearest to m * 10^e, for m > 0 of n digits: inf from
\* 2^1024 - 2^970 (1.797693134862315807...e308) on, 0.0 up to 2^-1075
\* (2.470328229206232720...e-324)
Rounded(m, n, e, neg) ==
    IF m = 0 THEN Finite(0, 0)
    ELSE IF n - 1 + e > 308 \/ (n - 1 + e = 308 /\ m * Pow10(9 - n) >= 179769314)
    THEN Infinite(neg)
    ELSE IF n - 1 + e < -324 \/ (n - 1 + e = -324 /\ m * Pow10(9 - n) <= 247032822)
    THEN Finite(0, 0)
    ELSE Finite(IF neg THEN -m ELSE m, e)

\* the digits before and after the point, and the exponent: the value of
\* the digits up to the last that is not 0, times the power of ten
FloatOfDigits(ip, fp, e, neg) ==
    IF AllDigits(ip) /\ AllDigits(fp) /\ Len(ip) + Len(fp) >= 1
    THEN LET zeros == TrailingZeros(ip \o fp)
             m == DigitsVal(SubSeq(ip \o fp, 1, Len(ip) + Len(fp) - zeros))
         IN  Rounded(m, Len(NatToStr(m)), e - Len(fp) + zeros, neg)
    ELSE NotFloat

DotsOf(u) == {i \in 1..Len(u) : u[i] = "."}

\* the text before the exponent, split at its point
FloatOfDecimal(u, dots, e, neg) ==
    IF Cardinality(dots) > 1 THEN NotFloat
    ELSE IF dots = {} THEN FloatOfDigits(u, <<>>, e, neg)
    ELSE FloatOfDigits(SubSeq(u, 1, (CHOOSE i \in dots : TRUE) - 1),
                       SubSeq(u, (CHOOSE i \in dots : TRUE) + 1, Len(u)), e, neg)

\* the text without its sign
Unsigned(t) == IF t # <<>> /\ Head(t) \in {"+", "-"} THEN Tail(t) ELSE t

\* the digits of an exponent, after its sign
FloatOfExponent(body, ex, neg) ==
    IF Unsigned(ex) = <<>> \/ ~AllDigits(Unsigned(ex)) THEN NotFloat
    ELSE FloatOfDecimal(body, DotsOf(body),
                        (IF Head(ex) = "-" THEN -1 ELSE 1) * DigitsVal(Unsigned(ex)),
                        neg)

\* the text after the sign, split at its e or E
FloatOfUnsigned(u, marks, neg) ==
    IF Cardinality(marks) > 1 THEN NotFloat
    ELSE IF marks = {} THEN FloatOfDecimal(u, DotsOf(u), 0, neg)
    ELSE FloatOfExponent(SubSeq(u, 1, (CHOOSE i \in marks : TRUE) - 1),
                         SubSeq(u, (CHOOSE i \in marks : TRUE) + 1, Len(u)), neg)

InfNames == {<<"i", "n", "f">>, <<"i", "n", "f", "i", "n", "i", "t", "y">>}

\* the text after the sign: a name or a number
FloatOfNamed(u, neg) ==
    IF Lower(u) \in InfNames THEN Infinite(neg)
    ELSE IF Lower(u) = <<"n", "a", "n">> THEN NaN
    ELSE FloatOfUnsigned(u, {i \in 1..Len(u) : u[i] \in {"e", "E"}}, neg)

FloatOfStripped(t) ==
    IF ~Ungrouped(t).ok THEN NotFloat
    ELSE FloatOfNamed(Unsigned(Ungrouped(t).text), t # <<>> /\ Head(t) = "-")

PyFloat(value) == FloatOfStripped(NumStrip(value))

\* The order of the float f and the int t: "lt", "eq" or "gt" as f < t,
\* f = t or f > t, "unordered" for nan, which compares False with every
\* number.  t is below 10^9 in magnitude.
CompareToInt(f, t) ==
    CASE f.kind = "nan" -> "unordered"
      [] f.kind = "inf" -> IF f.mant > 0 THEN "gt" ELSE "lt"
      [] f.kind = "finite" /\ f.exp >= 0 ->
           IF f.mant # 0 /\ Len(NatToStr(IF f.mant < 0 THEN -f.mant ELSE f.mant)) + f.exp > 9
           THEN IF f.mant > 0 THEN "gt" ELSE "lt"
           ELSE IF f.mant * Pow10(f.exp) < t THEN "lt"
           ELSE IF f.mant * Pow10(f.exp) = t THEN "eq" ELSE "gt"
      [] f.kind = "finite" /\ f.exp < -9 ->
           IF f.mant > 0 THEN (IF t <= 0 THEN "gt" ELSE "lt")
           ELSE (IF t <= -1 THEN "gt" ELSE "lt")
      [] OTHER ->
           IF f.mant \div Pow10(-f.exp) < t THEN "lt"
           ELSE IF f.mant \div Pow10(-f.exp) > t THEN "gt"
           ELSE IF f.mant % Pow10(-f.exp) = 0 THEN "eq" ELSE "gt"

(***************************************************************************)
(* Thresholds.  A threshold (RuleJSON) is a dict, a list of strings or a   *)
(* scalar; kind is its Python type.                                        *)
(***************************************************************************)
DictT(d) == [kind |-> "dict", dict |-> d, list |-> <<>>, int |-> 0, str |-> <<>>]
ListT(l) == [kind |-> "list", dict |-> EmptyMap, list |-> l, int |-> 0, str |-> <<>>]
IntT(n) == [kind |-> "int", dict |-> EmptyMap, list |-> <<>>, int |-> n, str |-> <<>>]
StrT(s) == [kind |-> "str", dict |-> EmptyMap, list |-> <<>>, int |-> 0, str |-> s]

RangeT(mn, mx) == DictT([k \in {"min", "max"} |-> IF k = "min" THEN mn ELSE mx])

(***************************************************************************)
(* validate_field_value                                                    *)
(***************************************************************************)
\* line 424: isinstance(threshold, dict) and "min" in threshold and "max" in threshold
IsRange(th) ==
    th.kind = "dict" /\ "min" \in DOMAIN th.dict /\ "max" \in DOMAIN th.dict

\* Variant of InRange: the upper bound is exclusive.
InRangeExclusive(th, f) ==
    /\ CompareToInt(f, th.dict["min"]) \in {"eq", "gt"}
    /\ CompareToInt(f, th.dict["max"]) = "lt"

\* line 430: threshold["min"] <= num_val <= threshold["max"], num_val = f
InRange(th, f) ==
    /\ CompareToInt(f, th.dict["min"]) \in {"eq", "gt"}
    /\ CompareToInt(f, th.dict["max"]) \in {"lt", "eq"}

\* Variant of InList: the comparison ignores surrounding whitespace.
InListStripped(value, list) == \E i \in 1..Len(list) : list[i] = Strip(value)

\* line 435: value in threshold, for a list threshold
InList(value, list) == \E i \in 1..Len(list) : list[i] = value

KeyChars(k) ==
    CASE k = "min" -> <<"m", "i", "n">>
      [] k = "max" -> <<"m", "a", "x">>

\* str() of a dict with int values whose keys are among min, max (in that order)
StrOfDict(d) ==
    LET entry(k) == <<"'">> \o KeyChars(k) \o <<"'", ":", " ">> \o IntToStr(d[k])
        keys == IF DOMAIN d = {"min", "max"} THEN <<"min", "max">>
                ELSE IF DOMAIN d = {"min"} THEN <<"min">>
                ELSE IF DOMAIN d = {"max"} THEN <<"max">>
                ELSE <<>>
        body == IF Len(keys) = 0 THEN <<>>
                ELSE IF Len(keys) = 1 THEN entry(keys[1])
                ELSE entry(keys[1]) \o <<",", " ">> \o entry(keys[2])
    IN  <<"{">> \o body \o <<"}">>

\* str(threshold), for the thresholds that reach the single-value branch
PyStr(th) ==
    CASE th.kind = "int" -> IntToStr(th.int)
      [] th.kind = "str" -> th.str
      [] th.kind = "dict" -> StrOfDict(th.dict)

\* Variant of ExactMatch: an int threshold is compared by number.
ExactMatchNumeric(value, th) ==
    IF th.kind = "int" /\ AllDigits(value) /\ value # <<>>
    THEN DigitsVal(value) = th.int
    ELSE value = PyStr(th)

\* line 440: str(value) == str(threshold); value is a str, so str(value) is value
ExactMatch(value, th) == value = PyStr(th)

Ok == [ok |-> TRUE, err |-> "none"]
Err(msg) == [ok |-> FALSE, err |-> msg]

\* Variant of IsEmptyValue: a value of whitespace counts as empty.
IsEmptyValueStripped(value) == Strip(value) = <<>>

\* line 444: not value
IsEmptyValue(value) == value = <<>>

\* Variant of ValidateAgainst: a mapping with only min or only max is
\* enforced as a bound on the number.
ValidateAgainstOneSided(thresholds, field, value) ==
    IF field \in DOMAIN thresholds
    THEN LET th == thresholds[field] IN
         IF th.kind = "dict" /\ DOMAIN th.dict \cap {"min", "max"} # {}
         THEN LET f == PyFloat(value) IN
              IF ~f.ok THEN Err("must be a number")
              ELSE IF \/ /\ "min" \in DOMAIN th.dict
                         /\ CompareToInt(f, th.dict["min"]) \notin {"eq", "gt"}
                      \/ /\ "max" \in DOMAIN th.dict
                         /\ CompareToInt(f, th.dict["max"]) \notin {"lt", "eq"}
              THEN Err("must be between")
              ELSE Ok
         ELSE IF th.kind = "list"
         THEN IF ~InList(value, th.list) THEN Err("must be one of") ELSE Ok
         ELSE IF ~ExactMatch(value, th) THEN Err("must be exactly") ELSE Ok
    ELSE IF IsEmptyValue(value) THEN Err("cannot be empty") ELSE Ok

\* validate_field_value(alert_source, field, value) against the thresholds
\* mapping of the source: Ok where it returns True, Err where it raises.
ValidateAgainst(thresholds, field, value) ==
    IF field \in DOMAIN thresholds
    THEN LET th == thresholds[field] IN
         IF IsRange(th)
         THEN LET f == PyFloat(value) IN
              IF ~f.ok THEN Err("must be a number")
              ELSE IF ~InRange(th, f) THEN Err("must be between")
              ELSE Ok
         ELSE IF th.kind = "list"
         THEN IF ~InList(value, th.list) THEN Err("must be one of") ELSE Ok
         ELSE IF ~ExactMatch(value, th) THEN Err("must be exactly") ELSE Ok
    ELSE IF IsEmptyValue(value) THEN Err("cannot be empty") ELSE Ok

validate_field_value(alert_source, field, value) ==
    ValidateAgainst(alert_sources[alert_source].thresholds, field, value)

(***************************************************************************)
(* String constants of the program, as character sequences.                *)
(***************************************************************************)
Medium == <<"M", "e", "d", "i", "u", "m">>
Success == <<"S", "u", "c", "c", "e", "s", "s">>
Breached == <<"B", "r", "e", "a", "c", "h", "e", "d">>
Unknown == <<"U", "n", "k", "n", "o", "w", "n">>
Detected == <<"D", "e", "t", "e", "c", "t", "e", "d">>
Clear == <<"C", "l", "e", "a", "r">>

\* the characters of the source names the model uses
Chars(name) ==
    CASE name = "SIEM_Alert" -> <<"S", "I", "E", "M", "_", "A", "l", "e", "r", "t">>
      [] name = "Login_Alert" -> <<"L", "o", "g", "i", "n", "_", "A", "l", "e", "r", "t">>
      [] name = "Smart_Fence_Alert" ->
           <<"S", "m", "a", "r", "t", "_", "F", "e", "n", "c", "e", "_", "A", "l", "e", "r", "t">>
      [] name = "Location_Based_Alert" ->
           <<"L", "o", "c", "a", "t", "i", "o", "n", "_", "B", "a", "s", "e", "d", "_",
             "A", "l", "e", "r", "t">>
      [] name = "Motion_Sensor_Alert" ->
           <<"M", "o", "t", "i", "o", "n", "_", "S", "e", "n", "s", "o", "r", "_",
             "A", "l", "e", "r", "t">>
      [] name = "IR_Sensor_Alert" ->
           <<"I", "R", "_", "S", "e", "n", "s", "o", "r", "_", "A", "l", "e", "r", "t">>
      [] name = "Demo" -> <<"D", "e", "m", "o">>
      [] name = "a-1" -> <<"a", "-", "1">>
      [] name = "été" -> <<"é", "t", "é">>
      [] name = "TestAlert" -> <<"T", "e", "s", "t", "A", "l", "e", "r", "t">>

(***************************************************************************)
(* get_valid_event_types and the default_fields table of __init__          *)
(***************************************************************************)
get_valid_event_types ==
    <<"SIEM_Alert", "Login_Alert", "Smart_Fence_Alert",
      "Location_Based_Alert", "Motion_Sensor_Alert", "IR_Sensor_Alert">>

ValidEventTypes == {get_valid_event_types[i] : i \in 1..Len(get_valid_event_types)}

default_fields ==
    [k \in ValidEventTypes |->
        CASE k = "SIEM_Alert" ->
               <<"severity", "description", "affectedUser", "sourceIP",
                 "destinationIP", "protocol", "sourcePort", "destinationPort",
                 "deviceAction", "targetResource">>
          [] k = "Login_Alert" ->
               <<"loginStatus", "username", "sourceIP", "userAgent",
                 "authenticationMethod", "failureReason", "loginTimestamp">>
          [] k = "Smart_Fence_Alert" ->
               <<"fenceId", "segmentId", "alertType", "status",
                 "detectionTimestamp", "sensorData">>
          [] k = "Location_Based_Alert" ->
               <<"userId", "deviceId", "locationDescription", "latitude",
                 "longitude", "trigger", "speed", "altitude", "accuracy">>
          [] k = "Motion_Sensor_Alert" ->
               <<"itemId", "location", "status", "detectionTimestamp",
                 "sensitivityLevel">>
          [] k = "IR_Sensor_Alert" ->
               <<"itemId", "location", "status", "beamStatusTimestamp",
                 "beamStrength">>]

(***************************************************************************)
(* ConfigManager                                                           *)
(***************************************************************************)
\* load_default_config, the hardcoded fallback (no default_config.json)
load_default_config ==
    ("SIEM_Alert" :> ("default_severity" :> Medium)) @@
    ("Login_Alert" :> ("default_status" :> Success)) @@
    ("Smart_Fence_Alert" :> ("default_status" :> Breached)) @@
    ("Location_Based_Alert" :> ("default_user" :> Unknown)) @@
    ("Motion_Sensor_Alert" :> ("default_status" :> Detected)) @@
    ("IR_Sensor_Alert" :> ("default_status" :> Detected)) @@
    ("sensor_types" :> EmptyMap) @@
    ("items" :> EmptyMap)

\* The config file: missing, text that is not JSON, bytes that are no text
\* in the encoding of open(), or a JSON object (a function on its keys).
NoFile == [kind |-> "missing", doc |-> EmptyMap]
CorruptFile == [kind |-> "corrupt", doc |-> EmptyMap]
UndecodableFile == [kind |-> "undecodable", doc |-> EmptyMap]
FileOf(doc) == [kind |-> "doc", doc |-> doc]

\* Variant of MergeDefaults: the defaults are merged into the entries of
\* the loaded document as well, one level down.
MergeDefaultsDeep(loaded, defaults) ==
    [k \in DOMAIN loaded \cup DOMAIN defaults |->
        IF k \in DOMAIN loaded \cap DOMAIN defaults
        THEN [x \in DOMAIN loaded[k] \cup DOMAIN defaults[k] |->
                 IF x \in DOMAIN loaded[k] THEN loaded[k][x] ELSE defaults[k][x]]
        ELSE IF k \in DOMAIN loaded THEN loaded[k] ELSE defaults[k]]

\* lines 58-60: every default key the loaded document lacks is copied in
MergeDefaults(loaded, defaults) ==
    [k \in DOMAIN loaded \cup DOMAIN defaults |->
        IF k \in DOMAIN loaded THEN loaded[k] ELSE defaults[k]]

\* A file whose JSON value is no object (a list of strings, a string, or a
\* number, null, true or false), and a path that cannot be opened.
ListFile(l) == [kind |-> "list", doc |-> EmptyMap, list |-> l]
StrFile(s) == [kind |-> "str", doc |-> EmptyMap, str |-> s]
ScalarFile == [kind |-> "scalar", doc |-> EmptyMap]
UnreadableFile == [kind |-> "unreadable", doc |-> EmptyMap]

\* the characters of a top-level key of the defaults
KeyText(k) ==
    CASE k = "sensor_types" -> <<"s", "e", "n", "s", "o", "r", "_", "t", "y", "p", "e", "s">>
      [] k = "items" -> <<"i", "t", "e", "m", "s">>
      [] OTHER -> Chars(k)

\* sub in s, for two strs
IsSubstring(sub, s) ==
    \E i \in 0..(Len(s) - Len(sub)) : SubSeq(s, i + 1, i + Len(sub)) = sub

\* line 59, k in loaded_config, where json.load gave a list or a str
HoldsKey(loaded, k) ==
    IF loaded.type = "list" THEN \E i \in 1..Len(loaded.list) : loaded.list[i] = k
    ELSE IsSubstring(KeyText(k), loaded.str)

\* The Python values json.load gives and json.dump takes: a dict, a list of
\* strs, a str.
DictValue(d) == [type |-> "dict", dict |-> d]
ListValue(l) == [type |-> "list", list |-> l]
StrValue(s) == [type |-> "str", str |-> s]

\* line 56, json.load(f), on a file that holds an object, a list or a string
Parsed(file) ==
    CASE file.kind = "doc" -> DictValue(file.doc)
      [] file.kind = "list" -> ListValue(file.list)
      [] file.kind = "str" -> StrValue(file.str)

Returned(value) == [raised |-> FALSE, exc |-> "none", value |-> value]
Raised(exc) == [raised |-> TRUE, exc |-> exc, value |-> DictValue(EmptyMap)]

\* The try block of load_config, lines 54-64: the value it returns, or the
\* exception raised.
\* Reading the file raises UnicodeDecodeError, before any parsing, where
\* its bytes are no text; the parser raises JSONDecodeError on text that is
\* not JSON.
\* On a value that is no dict, line 59 raises TypeError for a number, null,
\* true or false; on a list or a str line 60 raises TypeError at the first
\* default key the value does not hold, and the value is returned as it is
\* when it holds them all.
TryLoad(file, defaults) ==
    CASE file.kind = "missing" -> Returned(DictValue(defaults))
      [] file.kind = "unreadable" -> Raised("OSError")
      [] file.kind = "undecodable" -> Raised("UnicodeDecodeError")
      [] file.kind = "corrupt" -> Raised("JSONDecodeError")
      [] file.kind = "doc" ->
           Returned(DictValue(MergeDefaults(Parsed(file).dict, defaults)))
      [] file.kind = "scalar" -> Raised("TypeError")
      [] file.kind \in {"list", "str"} ->
           IF \A k \in DOMAIN defaults : HoldsKey(Parsed(file), k)
           THEN Returned(Parsed(file)) ELSE Raised("TypeError")

\* ConfigManager.load_config: what the try block returns, or the defaults
\* where it raises (lines 65-67)
LoadedValue(file) ==
    IF TryLoad(file, load_default_config).raised THEN DictValue(load_default_config)
    ELSE TryLoad(file, load_default_config).value

\* the document load_config returns, where it returns a dict
load_config(file) == LoadedValue(file).dict

\* The JSON value true: a one-element sequence no str of the model equals.
PyTrue == <<"true">>

(***************************************************************************)
(* json.dump and json.load.  A Python value is a node of a tree: a dict    *)
(* (a function on its keys), a list, a str, an int or True.  A str is a    *)
(* sequence of characters; a name of the model (a key, a field name, a     *)
(* source name) is a str of one unit, the name, which stands for its       *)
(* letters, digits and underscores.  The text of a file is the sequence of *)
(* its JSON tokens; the whitespace between them (indent=2) is left out,    *)
(* and so is the order of the members of an object, which json.load does   *)
(* not keep apart.  The numbers of the documents are ints.                 *)
(***************************************************************************)
DictTree(d) == [py |-> "dict", dict |-> d, list |-> <<>>, str |-> <<>>, int |-> 0]
ListTree(l) == [py |-> "list", dict |-> EmptyMap, list |-> l, str |-> <<>>, int |-> 0]
StrTree(s) == [py |-> "str", dict |-> EmptyMap, list |-> <<>>, str |-> s, int |-> 0]
IntTree(n) == [py |-> "int", dict |-> EmptyMap, list |-> <<>>, str |-> <<>>, int |-> n]
TrueTree == [py |-> "true", dict |-> EmptyMap, list |-> <<>>, str |-> <<>>, int |-> 0]
NameTree(name) == StrTree(<<name>>)

\* The characters of the model with their code points; U+0008 and U+0178
\* go by their names.
Backspace == "U+0008"

Alphabet ==
    <<Backspace, "\t", "\n", "", "\f", "\r", "", "", "", "", " ", "!",
      "\"", "#", "$", "%", "&", "'", "(", ")", "*", "+", ",", "-", ".", "/",
      "0", "1", "2", "3", "4", "5", "6", "7", "8", "9", ":", ";", "<", "=",
      ">", "?", "@", "A", "B", "C", "D", "E", "F", "G", "H", "I", "J", "K",
      "L", "M", "N", "O", "P", "Q", "R", "S", "T", "U", "V", "W", "X", "Y",
      "Z", "[", "\\", "]", "^", "_", "a", "b", "c", "d", "e", "f", "g", "h",
      "i", "j", "k", "l", "m", "n", "o", "p", "q", "r", "s", "t", "u", "v",
      "w", "x", "y", "z", "{", "|", "}", "~", "", "", " ", "¡", "¢", "£",
      "¤", "¥", "¦", "§", "¨", "©", "ª", "«", "¬", "­", "®", "¯", "°", "±",
      "²", "³", "´", "µ", "¶", "·", "¸", "¹", "º", "»", "¼", "½", "¾", "¿",
      "À", "Á", "Â", "Ã", "Ä", "Å", "Æ", "Ç", "È", "É", "Ê", "Ë", "Ì", "Í",
      "Î", "Ï", "Ð", "Ñ", "Ò", "Ó", "Ô", "Õ", "Ö", "×", "Ø", "Ù", "Ú", "Û",
      "Ü", "Ý", "Þ", "ß", "à", "á", "â", "ã", "ä", "å", "æ", "ç", "è", "é",
      "ê", "ë", "ì", "í", "î", "ï", "ð", "ñ", "ò", "ó", "ô", "õ", "ö", "÷",
      "ø", "ù", "ú", "û", "ü", "ý", "þ", "ÿ", CapitalYDiaeresis, "Μ">>

AlphabetCodes ==
    <<8, 9, 10, 11, 12, 13, 28, 29, 30, 31, 32, 33, 34, 35, 36, 37, 38, 39,
      40, 41, 42, 43, 44, 45, 46, 47, 48, 49, 50, 51, 52, 53, 54, 55, 56, 57,
      58, 59, 60, 61, 62, 63, 64, 65, 66, 67, 68, 69, 70, 71, 72, 73, 74, 75,
      76, 77, 78, 79, 80, 81, 82, 83, 84, 85, 86, 87, 88, 89, 90, 91, 92, 93,
      94, 95, 97, 98, 99, 100, 101, 102, 103, 104, 105, 106, 107, 108, 109,
      110, 111, 112, 113, 114, 115, 116, 117, 118, 119, 120, 121, 122, 123,
      124, 125, 126, 127, 133, 160, 161, 162, 163, 164, 165, 166, 167, 168,
      169, 170, 171, 172, 173, 174, 175, 176, 177, 178, 179, 180, 181, 182,
      183, 184, 185, 186, 187, 188, 189, 190, 191, 192, 193, 194, 195, 196,
      197, 198, 199, 200, 201, 202, 203, 204, 205, 206, 207, 208, 209, 210,
      211, 212, 213, 214, 215, 216, 217, 218, 219, 220, 221, 222, 223, 224,
      225, 226, 227, 228, 229, 230, 231, 232, 233, 234, 235, 236, 237, 238,
      239, 240, 241, 242, 243, 244, 245, 246, 247, 248, 249, 250, 251, 252,
      253, 254, 255, 376, 924>>

CodeTable ==
    [c \in {Alphabet[i] : i \in 1..Len(Alphabet)} |->
        AlphabetCodes[CHOOSE i \in 1..Len(Alphabet) : Alphabet[i] = c]]

CharTable ==
    [n \in {AlphabetCodes[i] : i \in 1..Len(Alphabet)} |->
        Alphabet[CHOOSE i \in 1..Len(Alphabet) : AlphabetCodes[i] = n]]

IsCoded(c) == c \in DOMAIN CodeTable

CodeOf(c) == CodeTable[c]

HasChar(code) == code \in DOMAIN CharTable

CharOf(code) == CharTable[code]

HexDigits ==
    <<"0", "1", "2", "3", "4", "5", "6", "7", "8", "9", "a", "b", "c", "d", "e", "f">>

HexDigitsUpper ==
    <<"0", "1", "2", "3", "4", "5", "6", "7", "8", "9", "A", "B", "C", "D", "E", "F">>

IsHex(c) == \E d \in 1..16 : HexDigits[d] = c \/ HexDigitsUpper[d] = c

HexVal(c) == (CHOOSE d \in 1..16 : HexDigits[d] = c \/ HexDigitsUpper[d] = c) - 1

\* '{0:04x}'.format(n)
Hex4(n) ==
    <<HexDigits[((n \div 4096) % 16) + 1], HexDigits[((n \div 256) % 16) + 1],
      HexDigits[((n \div 16) % 16) + 1], HexDigits[(n % 16) + 1]>>

\* the characters json writes with a backslash and a letter, and the letter
ShortEscaped == <<"\"", "\\", "\n", "\r", "\t", "\f", Backspace>>
ShortEscapes == <<"\"", "\\", "n", "r", "t", "f", "b">>

IsShortEscaped(c) == \E i \in 1..Len(ShortEscaped) : ShortEscaped[i] = c

\* Variant of EscapeChar: every character is written as it is.
EscapeCharPlain(c) == <<c>>

\* json.dump, ensure_ascii=True, on one character of a str: a quote, a
\* backslash and the control characters with a short form get it, every
\* other character below U+0020 or above U+007E its four hex digits
EscapeChar(c) ==
    IF IsShortEscaped(c)
    THEN <<"\\", ShortEscapes[CHOOSE i \in 1..Len(ShortEscaped) : ShortEscaped[i] = c]>>
    ELSE IF IsCoded(c) /\ (CodeOf(c) < 32 \/ CodeOf(c) > 126)
    THEN <<"\\", "u">> \o Hex4(CodeOf(c))
    ELSE <<c>>

\* what json.dump writes for the characters s[a] to s[b]
RECURSIVE EscapeRange(_, _, _)
EscapeRange(s, a, b) ==
    IF a > b THEN <<>>
    ELSE IF a = b THEN EscapeChar(s[a])
    ELSE EscapeRange(s, a, (a + b) \div 2) \o EscapeRange(s, ((a + b) \div 2) + 1, b)

\* what json.dump writes between the quotes
Escape(s) == EscapeRange(s, 1, Len(s))

NotStr == [ok |-> FALSE, str |-> <<>>]

\* the code of the four hex digits from s[i] on
HexCode(s, i) ==
    4096 * HexVal(s[i]) + 256 * HexVal(s[i + 1]) + 16 * HexVal(s[i + 2]) + HexVal(s[i + 3])

\* s[i] follows a backslash that begins an escape: the backslashes that
\* stand right before s[i] are odd in number
RECURSIVE IsEscaped(_, _)
IsEscaped(s, i) == i > 1 /\ s[i - 1] = "\\" /\ ~IsEscaped(s, i - 1)

\* s[i] is the u of a \u with four hex digits of a character after it
IsCodeEscape(s, i) ==
    /\ IsEscaped(s, i)
    /\ s[i] = "u"
    /\ i + 4 <= Len(s)
    /\ \A k \in 1..4 : IsHex(s[i + k])
    /\ HasChar(HexCode(s, i + 1))

\* s[i] is one of the four hex digits of a \u
IsCodeDigit(s, i) == \E k \in 1..4 : i - k >= 1 /\ IsCodeEscape(s, i - k)

\* what json.load reads at s[i], where it reads the text as a str: a
\* quote or a control character that is not escaped, a backslash followed by
\* anything but "\/bfnrtu, and a \u without four hex digits are invalid
IsStrChar(s, i) ==
    IF IsEscaped(s, i)
    THEN \/ s[i] = "/"
         \/ \E k \in 1..Len(ShortEscapes) : ShortEscapes[k] = s[i]
         \/ IsCodeEscape(s, i)
    ELSE IF s[i] = "\\" THEN i < Len(s)
    ELSE s[i] # "\"" /\ ~(IsCoded(s[i]) /\ CodeOf(s[i]) < 32)

\* the characters s[i] stands for
Unescaped(s, i) ==
    IF IsEscaped(s, i)
    THEN IF s[i] = "/" THEN <<"/">>
         ELSE IF s[i] = "u" THEN <<CharOf(HexCode(s, i + 1))>>
         ELSE <<ShortEscaped[CHOOSE k \in 1..Len(ShortEscapes) : ShortEscapes[k] = s[i]]>>
    ELSE IF s[i] = "\\" \/ IsCodeDigit(s, i) THEN <<>>
    ELSE <<s[i]>>

RECURSIVE UnescapedRange(_, _, _)
UnescapedRange(s, a, b) ==
    IF a > b THEN <<>>
    ELSE IF a = b THEN Unescaped(s, a)
    ELSE UnescapedRange(s, a, (a + b) \div 2)
             \o UnescapedRange(s, ((a + b) \div 2) + 1, b)

\* json.load on what stands between the quotes
Unescape(s) ==
    IF \A i \in 1..Len(s) : IsStrChar(s, i)
    THEN [ok |-> TRUE, str |-> UnescapedRange(s, 1, Len(s))]
    ELSE NotStr

\* the int a JSON number without fraction and exponent is
JsonInt(s) ==
    IF /\ Unsigned(s) # <<>>
       /\ AllDigits(Unsigned(s))
       /\ (s = Unsigned(s) \/ Head(s) = "-")
       /\ (Len(Unsigned(s)) = 1 \/ Head(Unsigned(s)) # "0")
    THEN [ok |-> TRUE, val |-> (IF Head(s) = "-" THEN -1 ELSE 1) * DigitsVal(Unsigned(s))]
    ELSE [ok |-> FALSE, val |-> 0]

\* the tokens: the six structural characters, true, a string with what
\* stands between its quotes, a number with its text
Tok(t) == [t |-> t, s |-> <<>>]
StrTok(s) == [t |-> "str", s |-> s]
NumTok(s) == [t |-> "num", s |-> s]

\* json.dump(value, f, indent=2), line 72: the tokens written for a tree
RECURSIVE Dump(_), DumpMembers(_, _), DumpMember(_, _, _), DumpElements(_, _)
DumpMember(d, keys, k) ==
    <<StrTok(Escape(<<k>>)), Tok(":")>> \o Dump(d[k])
        \o (IF keys = {k} THEN <<>> ELSE <<Tok(",")>> \o DumpMembers(d, keys \ {k}))

DumpMembers(d, keys) ==
    IF keys = {} THEN <<>> ELSE DumpMember(d, keys, CHOOSE k \in keys : TRUE)

DumpElements(l, i) ==
    IF i > Len(l) THEN <<>>
    ELSE Dump(l[i]) \o (IF i = Len(l) THEN <<>> ELSE <<Tok(",")>> \o DumpElements(l, i + 1))

Dump(v) ==
    CASE v.py = "dict" -> <<Tok("{")>> \o DumpMembers(v.dict, DOMAIN v.dict) \o <<Tok("}")>>
      [] v.py = "list" -> <<Tok("[")>> \o DumpElements(v.list, 1) \o <<Tok("]")>>
      [] v.py = "str" -> <<StrTok(Escape(v.str))>>
      [] v.py = "int" -> <<NumTok(IntToStr(v.int))>>
      [] v.py = "true" -> <<Tok("true")>>

\* The outcome of reading a value: the tree and the position after it.
NotJson == [ok |-> FALSE, val |-> TrueTree, next |-> 0]
Read(val, next) == [ok |-> TRUE, val |-> val, next |-> next]

\* the str u, or the int n, was read up to next
StrRead(u, next) == IF u.ok THEN Read(StrTree(u.str), next) ELSE NotJson
IntRead(n, next) == IF n.ok THEN Read(IntTree(n.val), next) ELSE NotJson

\* toks[i] is the token t
IsTok(toks, i, t) == i <= Len(toks) /\ toks[i].t = t

\* json.load, line 56, from toks[i] on: a value; the members of an object
\* after its brace or a comma, acc being those read so far (of two members
\* with one key the later one stays); the elements of an array likewise.
\* The key of a member is a name.
RECURSIVE ParseValue(_, _), ParseMembers(_, _, _), AfterKey(_, _, _, _),
          AfterMember(_, _, _, _), ParseElements(_, _, _), AfterElement(_, _, _)
AfterMember(toks, acc, key, r) ==
    IF ~r.ok THEN NotJson
    ELSE IF IsTok(toks, r.next, ",")
    THEN ParseMembers(toks, r.next + 1, (key :> r.val) @@ acc)
    ELSE IF IsTok(toks, r.next, "}")
    THEN Read(DictTree((key :> r.val) @@ acc), r.next + 1)
    ELSE NotJson

\* u is the key read at toks[i]
AfterKey(toks, i, acc, u) ==
    IF u.ok /\ Len(u.str) = 1
    THEN AfterMember(toks, acc, u.str[1], ParseValue(toks, i + 2))
    ELSE NotJson

ParseMembers(toks, i, acc) ==
    IF IsTok(toks, i, "str") /\ IsTok(toks, i + 1, ":")
    THEN AfterKey(toks, i, acc, Unescape(toks[i].s))
    ELSE NotJson

AfterElement(toks, acc, r) ==
    IF ~r.ok THEN NotJson
    ELSE IF IsTok(toks, r.next, ",")
    THEN ParseElements(toks, r.next + 1, Append(acc, r.val))
    ELSE IF IsTok(toks, r.next, "]")
    THEN Read(ListTree(Append(acc, r.val)), r.next + 1)
    ELSE NotJson

ParseElements(toks, i, acc) == AfterElement(toks, acc, ParseValue(toks, i))

ParseValue(toks, i) ==
    IF i > Len(toks) THEN NotJson
    ELSE CASE toks[i].t = "{" ->
                IF IsTok(toks, i + 1, "}") THEN Read(DictTree(EmptyMap), i + 2)
                ELSE ParseMembers(toks, i + 1, EmptyMap)
           [] toks[i].t = "[" ->
                IF IsTok(toks, i + 1, "]") THEN Read(ListTree(<<>>), i + 2)
                ELSE ParseElements(toks, i + 1, <<>>)
           [] toks[i].t = "str" -> StrRead(Unescape(toks[i].s), i + 1)
           [] toks[i].t = "num" -> IntRead(JsonInt(toks[i].s), i + 1)
           [] toks[i].t = "true" -> Read(TrueTree, i + 1)
           [] OTHER -> NotJson

\* json.load on the whole text: one value and nothing after it
Whole(toks, r) == IF r.ok /\ r.next = Len(toks) + 1 THEN r ELSE NotJson

Loads(toks) == Whole(toks, ParseValue(toks, 1))

\* The tree of a value of the model.  A threshold is a tree with its
\* content as it is; the values of settings and of item fields are strs,
\* the flags of an item True; fields and the values of a list config are
\* names.
TreeOfThreshold(th) ==
    CASE th.kind = "dict" -> DictTree([k \in DOMAIN th.dict |-> IntTree(th.dict[k])])
      [] th.kind = "list" -> ListTree([i \in 1..Len(th.list) |-> StrTree(th.list[i])])
      [] th.kind = "int" -> IntTree(th.int)
      [] th.kind = "str" -> StrTree(th.str)

TreeOfThresholds(m) == DictTree([f \in DOMAIN m |-> TreeOfThreshold(m[f])])

TreeOfItem(item) ==
    DictTree([k \in DOMAIN item |->
                 IF item[k] = PyTrue THEN TrueTree ELSE StrTree(item[k])])

TreeOfItems(items) == ListTree([i \in 1..Len(items) |-> TreeOfItem(items[i])])

TreeOfNames(names) == ListTree([i \in 1..Len(names) |-> NameTree(names[i])])

\* a mapping of settings, or an old per-type entry with its thresholds
TreeOfSettings(m) ==
    DictTree([k \in DOMAIN m |->
                 IF k = "thresholds" THEN TreeOfThresholds(m[k]) ELSE StrTree(m[k])])

TreeOfSource(src) ==
    DictTree([k \in {"fields", "thresholds", "settings", "items"} |->
                 CASE k = "fields" -> TreeOfNames(src.fields)
                   [] k = "thresholds" -> TreeOfThresholds(src.thresholds)
                   [] k = "settings" -> TreeOfSettings(src.settings)
                   [] k = "items" -> TreeOfItems(src.items)])

TreeOfEntry(k, v) ==
    CASE k = "alert_sources" -> DictTree([n \in DOMAIN v |-> TreeOfSource(v[n])])
      [] k = "items" -> DictTree([n \in DOMAIN v |-> TreeOfItems(v[n])])
      [] k = "theme" -> StrTree(v)
      [] OTHER -> TreeOfSettings(v)

TreeOf(value) ==
    CASE value.type = "dict" ->
           DictTree([k \in DOMAIN value.dict |-> TreeOfEntry(k, value.dict[k])])
      [] value.type = "list" -> TreeOfNames(value.list)
      [] value.type = "str" -> StrTree(value.str)

\* The value of the model a tree is.
ThresholdOf(t) ==
    CASE t.py = "dict" -> DictT([k \in DOMAIN t.dict |-> t.dict[k].int])
      [] t.py = "list" -> ListT([i \in 1..Len(t.list) |-> t.list[i].str])
      [] t.py = "int" -> IntT(t.int)
      [] t.py = "str" -> StrT(t.str)

RECURSIVE ValueOf(_)
ValueOf(t) ==
    CASE t.py = "dict" ->
           [k \in DOMAIN t.dict |->
               IF k = "thresholds"
               THEN [f \in DOMAIN t.dict[k].dict |-> ThresholdOf(t.dict[k].dict[f])]
               ELSE IF k = "fields"
               THEN [i \in 1..Len(t.dict[k].list) |-> t.dict[k].list[i].str[1]]
               ELSE ValueOf(t.dict[k])]
      [] t.py = "list" -> [i \in 1..Len(t.list) |-> ValueOf(t.list[i])]
      [] t.py = "str" -> t.str
      [] t.py = "int" -> t.int
      [] t.py = "true" -> PyTrue

\* The file whose text json.load reads as r.
FileRead(r) ==
    IF ~r.ok THEN CorruptFile
    ELSE CASE r.val.py = "dict" -> FileOf(ValueOf(r.val))
           [] r.val.py = "list" ->
                ListFile([i \in 1..Len(r.val.list) |-> r.val.list[i].str[1]])
           [] r.val.py = "str" -> StrFile(r.val.str)
           [] OTHER -> ScalarFile

\* The file that holds the text toks, told by what json.load makes of it.
FileHolding(toks) == FileRead(Loads(toks))

\* Variant of Written: only the keys of the defaults are written.
WrittenDefaultKeysOnly(value) ==
    CASE value.type = "dict" ->
           FileOf([k \in DOMAIN value.dict \cap DOMAIN load_default_config |->
                      value.dict[k]])
      [] value.type = "list" -> ListFile(value.list)
      [] value.type = "str" -> StrFile(value.str)

\* ConfigManager.save_config, line 72: the file json.dump(self.config, f)
\* leaves
Written(value) == FileHolding(Dump(TreeOf(value)))

\* Variant of SavedFile: the registry is not put into the document written.
SavedFileWithoutSources(cfg, sources) == FileOf(cfg)

\* CRCSimulator.save_config: config["alert_sources"] = alert_sources, then
\* json.dump of the whole config.  The file is told by the document its
\* text holds; the text itself, and what json.load makes of it, are Dump
\* and Loads, which SpecLoad puts between every save and load (Written).
SavedFile(cfg, sources) == FileOf(("alert_sources" :> sources) @@ cfg)

(***************************************************************************)
(* CRCSimulator.__init__                                                   *)
(***************************************************************************)
NewSource(fields) ==
    [fields |-> fields, thresholds |-> EmptyMap, settings |-> EmptyMap, items |-> <<>>]

\* line 90: self.config.get("alert_sources", {})
LoadedSources(cfg) ==
    IF "alert_sources" \in DOMAIN cfg THEN cfg["alert_sources"] ELSE EmptyMap

\* Variant of NeedsMigration: migrate whenever a well-known type is missing.
NeedsMigrationIfIncomplete(sources) == ~(ValidEventTypes \subseteq DOMAIN sources)

\* line 91: if not self.alert_sources
NeedsMigration(sources) == DOMAIN sources = {}

\* lines 109-112: old items of a well-known type
MigratedItems(cfg, k) ==
    IF "items" \in DOMAIN cfg /\ k \in DOMAIN cfg["items"]
    THEN cfg["items"][k] ELSE <<>>

\* lines 115-117: the per-type thresholds mapping
MigratedThresholds(cfg, k) ==
    IF k \in DOMAIN cfg /\ "thresholds" \in DOMAIN cfg[k]
    THEN cfg[k]["thresholds"] ELSE EmptyMap

\* Variant of MigratedSettings: no per-type key is left out.
MigratedSettingsAllKeys(cfg, k) ==
    IF k \in DOMAIN cfg THEN cfg[k] ELSE EmptyMap

\* lines 118-120: every other per-type key becomes a setting
MigratedSettings(cfg, k) ==
    IF k \in DOMAIN cfg
    THEN [s \in DOMAIN cfg[k] \ {"thresholds", "fields", "items"} |-> cfg[k][s]]
    ELSE EmptyMap

\* lines 93-120
Migrate(cfg) ==
    [k \in ValidEventTypes |->
        [fields |-> default_fields[k],
         thresholds |-> MigratedThresholds(cfg, k),
         settings |-> MigratedSettings(cfg, k),
         items |-> MigratedItems(cfg, k)]]

\* The simulator constructed on a config file: its config (without the
\* alert_sources entry), its registry, the item lists it shares with
\* config["items"], and the file it leaves behind (the save of line 122
\* fails on a path that cannot be opened, lines 73-74, and the path stays).
Construct(file) ==
    LET cfg == load_config(file)
        loaded == LoadedSources(cfg)
        migrate == NeedsMigration(loaded)
        sources == IF migrate THEN Migrate(cfg) ELSE loaded
        rest == [k \in DOMAIN cfg \ {"alert_sources"} |-> cfg[k]]
    IN  [config |-> rest,
         alert_sources |-> sources,
         aliased |-> IF migrate /\ "items" \in DOMAIN cfg
                     THEN ValidEventTypes \cap DOMAIN cfg["items"] ELSE {},
         disk |-> IF migrate /\ file.kind # "unreadable"
                  THEN SavedFile(rest, sources) ELSE file,
         migrated |-> migrate]

(***************************************************************************)
(* Item ids: source[:3].upper(), str.startswith, str.split("-"), int(),    *)
(* and the format {n:03d}                                                  *)
(***************************************************************************)
\* line 329: source[:3].upper()
ItemIdPrefix(source) ==
    LET c == Chars(source) IN
    Upper(SubSeq(c, 1, IF Len(c) < 3 THEN Len(c) ELSE 3))

\* str.startswith
StartsWith(s, prefix) ==
    Len(prefix) <= Len(s) /\ SubSeq(s, 1, Len(prefix)) = prefix

\* s.split("-")
RECURSIVE SplitDash(_)
SplitDash(s) ==
    LET dashes == {i \in 1..Len(s) : s[i] = "-"} IN
    IF dashes = {} THEN <<s>>
    ELSE LET d == CHOOSE i \in dashes : \A j \in dashes : i <= j IN
         <<SubSeq(s, 1, d - 1)>> \o SplitDash(SubSeq(s, d + 1, Len(s)))

\* the text of an int without "_": an optional sign and digits
IntOfPlain(t) ==
    IF Unsigned(t) # <<>> /\ AllDigits(Unsigned(t))
    THEN [ok |-> TRUE,
          val |-> (IF Head(t) = "-" THEN -1 ELSE 1) * DigitsVal(Unsigned(t))]
    ELSE [ok |-> FALSE, val |-> 0]

\* int(s), base ten: ok is FALSE where it raises ValueError
IntOfStripped(t) ==
    IF ~Ungrouped(t).ok THEN [ok |-> FALSE, val |-> 0]
    ELSE IntOfPlain(Ungrouped(t).text)

PyInt(s) == IntOfStripped(NumStrip(s))

\* f"{n:03d}" for n >= 0
Pad3(n) ==
    LET d == NatToStr(n) IN
    IF Len(d) >= 3 THEN d ELSE [i \in 1..(3 - Len(d)) |-> "0"] \o d

MaxOf(S) == CHOOSE m \in S : \A x \in S : x <= m

\* line 330: the list existing_ids, or the exception its comprehension raises
\* (KeyError: an item without id; IndexError: a matching id without "-";
\* ValueError: a suffix that is no int)
ExistingIds(items, prefix) ==
    LET matching == {i \in 1..Len(items) :
                        "id" \notin DOMAIN items[i] \/ StartsWith(items[i]["id"], prefix)}
        piece(parts) == IF Len(parts) < 2 THEN [ok |-> FALSE, val |-> 0]
                        ELSE PyInt(parts[2])
        number(i) == IF "id" \notin DOMAIN items[i] THEN [ok |-> FALSE, val |-> 0]
                     ELSE piece(SplitDash(items[i]["id"]))
        numbers == {<<i, number(i)>> : i \in matching}
    IN  IF \E n \in numbers : ~n[2].ok
        THEN [ok |-> FALSE, ids |-> {}]
        ELSE [ok |-> TRUE, ids |-> {n[2].val : n \in numbers}]

\* line 331: the id of the next item, given the existing numbers
NewItemId(prefix, ids) ==
    IF ids # {} THEN prefix \o <<"-">> \o Pad3(MaxOf(ids) + 1)
    ELSE prefix \o <<"-", "0", "0", "1">>

(***************************************************************************)
(* add_alert_source, remove_alert_source                                   *)
(***************************************************************************)
\* Variant of add_alert_source: an existing source is replaced.
add_alert_source_overwrite(sources, name, fields) ==
    [ok |-> TRUE, err |-> "none",
     sources |-> (name :> NewSource(fields)) @@ sources]

\* lines 135-138: the registry after the call, or the ValueError it raises
add_alert_source(sources, name, fields) ==
    IF name \in DOMAIN sources
    THEN [ok |-> FALSE, err |-> "already exists", sources |-> sources]
    ELSE [ok |-> TRUE, err |-> "none",
          sources |-> (name :> NewSource(fields)) @@ sources]

\* Variant of remove_alert_source: the whole registry is cleared.
remove_alert_source_clear(sources, name) ==
    IF name \notin DOMAIN sources
    THEN [ok |-> FALSE, err |-> "not found", sources |-> sources]
    ELSE [ok |-> TRUE, err |-> "none", sources |-> EmptyMap]

\* lines 144-147
remove_alert_source(sources, name) ==
    IF name \notin DOMAIN sources
    THEN [ok |-> FALSE, err |-> "not found", sources |-> sources]
    ELSE [ok |-> TRUE, err |-> "none",
          sources |-> [k \in DOMAIN sources \ {name} |-> sources[k]]]

(***************************************************************************)
(* manage_alert_sources, choice 2: the name and the field names are typed. *)
(* A typed name is a sequence of characters; NamedBy and FieldNamed give   *)
(* the key it is in the registry.                                          *)
(***************************************************************************)
\* the names and the field names that are typed in the model
TypedNames == {"Demo", "TestAlert", "SIEM_Alert"}
TypedFields == {"val", "num"}

FieldChars(f) ==
    CASE f = "val" -> <<"v", "a", "l">>
      [] f = "num" -> <<"n", "u", "m">>

NamedBy(chars) == CHOOSE n \in TypedNames : Chars(n) = chars
FieldNamed(chars) == CHOOSE f \in TypedFields : FieldChars(f) = chars

\* s.split(",")
RECURSIVE SplitComma(_)
SplitComma(s) ==
    LET commas == {i \in 1..Len(s) : s[i] = ","} IN
    IF commas = {} THEN <<s>>
    ELSE LET d == CHOOSE i \in commas : \A j \in commas : i <= j IN
         <<SubSeq(s, 1, d - 1)>> \o SplitComma(SubSeq(s, d + 1, Len(s)))

IsNotBlank(part) == Strip(part) # <<>>

\* line 177: [f.strip() for f in fields.split(',') if f.strip()]
FieldList(fields) ==
    LET parts == SelectSeq(SplitComma(Strip(fields)), IsNotBlank) IN
    [i \in 1..Len(parts) |-> FieldNamed(Strip(parts[i]))]

\* lines 169-185: [ok, err, sources]; an error of add_alert_source would be
\* caught and printed
manage_add_source(sources, name, fields) ==
    IF Strip(name) = <<>>
    THEN [ok |-> FALSE, err |-> "name cannot be empty", sources |-> sources]
    ELSE IF NamedBy(Strip(name)) \in DOMAIN sources
    THEN [ok |-> FALSE, err |-> "already exists", sources |-> sources]
    ELSE IF FieldList(fields) = <<>>
    THEN [ok |-> FALSE, err |-> "at least one field is required", sources |-> sources]
    ELSE add_alert_source(sources, NamedBy(Strip(name)), FieldList(fields))

(***************************************************************************)
(* add_item_to_source, edit_item_in_source, remove_item_from_source        *)
(* raw[i] is the line typed at the prompt for the i-th field.              *)
(***************************************************************************)
\* lines 321-328: the typed values, stripped, each validated in field order
TypedValue(raw, i) == Strip(raw[i])

FailingFields(thresholds, fields, raw) ==
    {i \in 1..Len(fields) :
        ~ValidateAgainst(thresholds, fields[i], TypedValue(raw, i)).ok}

\* item_details: one key per field (the last value wins for a repeated field)
ItemDetails(fields, raw) ==
    [f \in {fields[i] : i \in 1..Len(fields)} |->
        TypedValue(raw, MaxOf({i \in 1..Len(fields) : fields[i] = f}))]

\* line 332: {"id": new_item_id, **item_details}
NewItem(id, details) == details @@ ("id" :> id)

\* lines 319-333: the item list of the source after the call
add_item_to_source(sources, source, raw) ==
    LET src == sources[source]
        failing == FailingFields(src.thresholds, src.fields, raw)
        first == CHOOSE i \in failing : \A j \in failing : i <= j
        prefix == ItemIdPrefix(source)
        existing == ExistingIds(src.items, prefix)
    IN  IF failing # {}
        THEN [ok |-> FALSE, saved |-> FALSE, items |-> src.items,
              err |-> ValidateAgainst(src.thresholds, src.fields[first],
                                      TypedValue(raw, first)).err]
        ELSE IF ~existing.ok
        THEN [ok |-> FALSE, saved |-> FALSE, items |-> src.items, err |-> "raised"]
        ELSE [ok |-> TRUE, saved |-> TRUE, err |-> "none",
              items |-> Append(src.items,
                               NewItem(NewItemId(prefix, existing.ids),
                                       ItemDetails(src.fields, raw)))]

\* lines 358-367: the loop over the fields from field i on; the item is
\* changed in place, field by field, until a value fails validation
RECURSIVE EditFields(_, _, _, _, _)
EditFields(item, thresholds, fields, raw, i) ==
    IF i > Len(fields) THEN [ok |-> TRUE, err |-> "none", item |-> item]
    ELSE LET value == TypedValue(raw, i) IN
         IF value = <<>>
         THEN EditFields(item, thresholds, fields, raw, i + 1)
         ELSE LET r == ValidateAgainst(thresholds, fields[i], value) IN
              IF ~r.ok THEN [ok |-> FALSE, err |-> r.err, item |-> item]
              ELSE EditFields((fields[i] :> value) @@ item,
                              thresholds, fields, raw, i + 1)

\* lines 339-368: the item list after the call; saved tells whether
\* save_config was reached.  The items are listed before the prompt (lines
\* 343-344), and item['id'] raises KeyError on an item without id.
edit_item_in_source(sources, source, idx, raw) ==
    LET src == sources[source] IN
    IF src.items = <<>>
    THEN [ok |-> TRUE, saved |-> FALSE, err |-> "no items", items |-> src.items]
    ELSE IF \E i \in 1..Len(src.items) : "id" \notin DOMAIN src.items[i]
    THEN [ok |-> FALSE, saved |-> FALSE, err |-> "raised", items |-> src.items]
    ELSE IF idx \notin 1..Len(src.items)
    THEN [ok |-> TRUE, saved |-> FALSE, err |-> "invalid number", items |-> src.items]
    ELSE LET e == EditFields(src.items[idx], src.thresholds, src.fields, raw, 1) IN
         [ok |-> e.ok, saved |-> e.ok, err |-> e.err,
          items |-> [src.items EXCEPT ![idx] = e.item]]

\* lines 373-389; the listing of lines 377-378 raises KeyError on an item
\* without id
remove_item_from_source(sources, source, idx) ==
    LET src == sources[source] IN
    IF src.items = <<>>
    THEN [ok |-> TRUE, saved |-> FALSE, err |-> "no items", items |-> src.items]
    ELSE IF \E i \in 1..Len(src.items) : "id" \notin DOMAIN src.items[i]
    THEN [ok |-> FALSE, saved |-> FALSE, err |-> "raised", items |-> src.items]
    ELSE IF idx \notin 1..Len(src.items)
    THEN [ok |-> TRUE, saved |-> FALSE, err |-> "invalid number", items |-> src.items]
    ELSE [ok |-> TRUE, saved |-> TRUE, err |-> "none",
          items |-> [i \in 1..(Len(src.items) - 1) |->
                        IF i < idx THEN src.items[i] ELSE src.items[i + 1]]]

(***************************************************************************)
(* Auto-generated items: the motion and IR detail routines, send_event,    *)
(* cleanup_simulation_items, simulate_event.  The JSON value true of an    *)
(* item flag is the one-element sequence PyTrue (see json.load).            *)
(***************************************************************************)
\* item.get(key) is truthy
Truthy(item, key) == key \in DOMAIN item /\ item[key] # <<>>

Obscured == <<"O", "b", "s", "c", "u", "r", "e", "d">>

\* possible_statuses of the motion and the IR routine
PossibleStatuses(event_type) ==
    IF event_type = "Motion_Sensor_Alert" THEN {Detected, Clear}
    ELSE {Detected, Clear, Obscured}

\* item_id_prefix of the motion and the IR routine
AutoIdPrefix(event_type) ==
    IF event_type = "Motion_Sensor_Alert" THEN <<"M", "O", "T">> ELSE <<"I", "R">>

\* the text before the location in the name of an auto-generated item
AutoNameLabel(event_type) ==
    IF event_type = "Motion_Sensor_Alert"
    THEN <<"M", "o", "t", "i", "o", "n", " ", "S", "e", "n", "s", "o", "r", " ", "a", "t", " ">>
    ELSE <<"I", "R", " ", "S", "e", "n", "s", "o", "r", " ", "a", "t", " ">>

\* settings.get("default_status", "Detected")
DefaultStatus(settings) ==
    IF "default_status" \in DOMAIN settings THEN settings["default_status"] ELSE Detected

\* The location and the status the routine works with.  in.manual: the lines
\* typed at the prompts; otherwise, and for an empty typed location, the
\* values the random generator gives (in.random_location, in.random_status).
SensorLocation(in) ==
    IF in.manual /\ Strip(in.location) # <<>> THEN Strip(in.location)
    ELSE in.random_location

StatusOrDefault(status, possible, default) ==
    IF status = <<>> \/ status \notin possible THEN default ELSE status

SensorStatus(in, possible, default) ==
    IF in.manual THEN StatusOrDefault(Strip(Capitalize(in.status)), possible, default)
    ELSE in.random_status

\* next((item for item in items if item.get("location") == location), None):
\* the position of the item, 0 for None
FindByLocation(items, location) ==
    IF \E i \in 1..Len(items) :
            "location" \in DOMAIN items[i] /\ items[i]["location"] = location
    THEN CHOOSE i \in 1..Len(items) :
            /\ "location" \in DOMAIN items[i] /\ items[i]["location"] = location
            /\ \A j \in 1..(i - 1) :
                  ~("location" \in DOMAIN items[j] /\ items[j]["location"] = location)
    ELSE 0

\* the item the routine fabricates
AutoItem(id, label, location, status) ==
    ("id" :> id) @@ ("name" :> label \o location) @@ ("location" :> location) @@
    ("value" :> status) @@ ("auto_generated" :> PyTrue)

\* the lookup missed: a new item is appended, unless existing_ids raised
AutoItemAdded(items, prefix, label, location, status, existing) ==
    IF ~existing.ok THEN [ok |-> FALSE, created |-> FALSE, items |-> items]
    ELSE [ok |-> TRUE, created |-> TRUE,
          items |-> Append(items, AutoItem(NewItemId(prefix, existing.ids),
                                           label, location, status))]

\* Variant of FoundOrCreated: a new item is appended on a hit too.
AlwaysCreated(items, found, prefix, label, location, status) ==
    AutoItemAdded(items, prefix, label, location, status, ExistingIds(items, prefix))

\* the item list after the lookup: the item found gets the status as its
\* value, in place (the routine then reads item["id"], KeyError without
\* one); on a miss an item is appended
FoundOrCreated(items, found, prefix, label, location, status) ==
    IF found > 0
    THEN [ok |-> "id" \in DOMAIN items[found], created |-> FALSE,
          items |-> [items EXCEPT ![found] = ("value" :> status) @@ @]]
    ELSE AutoItemAdded(items, prefix, label, location, status,
                       ExistingIds(items, prefix))

\* get_motion_sensor_alert_details and _get_ir_sensor_alert_details on the
\* source src: [ok, created, items]
SensorDetails(event_type, src, in) ==
    FoundOrCreated(src.items, FindByLocation(src.items, SensorLocation(in)),
                   AutoIdPrefix(event_type), AutoNameLabel(event_type),
                   SensorLocation(in),
                   SensorStatus(in, PossibleStatuses(event_type),
                                DefaultStatus(src.settings)))

\* Variant of AutoGenerated: send_event asks about every item.
AskedAboutEveryItem(items) == 1..Len(items)

\* the items send_event asks about
AutoGenerated(items) == {i \in 1..Len(items) : Truthy(items[i], "auto_generated")}

\* save = input(...).strip().lower(); save == 'y'
SaidYes(answer) == Lower(Strip(answer)) = <<"y">>

\* item.pop("auto_generated", None)
Kept(item) == [k \in DOMAIN item \ {"auto_generated"} |-> item[k]]

\* Variant of Discarded: the item is not marked.
DiscardedUnmarked(item) == item

\* item["_remove_after_simulation"] = True
Discarded(item) == ("_remove_after_simulation" :> PyTrue) @@ item

\* the number of auto-generated items before position i
AskedBefore(items, i) == Cardinality({j \in AutoGenerated(items) : j < i})

\* send_event, lines 495-506: every auto-generated item of the source, in
\* list order, is kept or marked according to the next answer typed
Decided(items, answers) ==
    [i \in 1..Len(items) |->
        IF ~Truthy(items[i], "auto_generated") THEN items[i]
        ELSE IF SaidYes(answers[AskedBefore(items, i) + 1]) THEN Kept(items[i])
        ELSE Discarded(items[i])]

\* line 512: the positions of the items that stay
Surviving(items) ==
    {i \in 1..Len(items) : ~Truthy(items[i], "_remove_after_simulation")}

\* where each item of the list is after the filter of line 512 (0: dropped)
FilterMap(items) ==
    [i \in 1..Len(items) |->
        IF i \in Surviving(items)
        THEN Cardinality({j \in Surviving(items) : j <= i}) ELSE 0]

\* the list a position map leaves: the item at position p comes from the
\* position i with pm[i] = p
Moved(items, pm) ==
    [p \in 1..Cardinality({i \in 1..Len(items) : pm[i] > 0}) |->
        items[CHOOSE i \in 1..Len(items) : pm[i] = p]]

\* position maps of the in-place list operations
IdMap(n) == [i \in 1..n |-> i]
PopMap(n, idx) == [i \in 1..n |-> IF i < idx THEN i ELSE IF i = idx THEN 0 ELSE i - 1]

(***************************************************************************)
(* Shared objects.  After the migration of __init__ the list                *)
(* config["items"][k] is the list alert_sources[k]["items"] (aliased).      *)
(* cleanup_simulation_items gives every source a new list that holds the    *)
(* same item dicts: config["items"][k] is then the old list, and links[k]   *)
(* tells for each of its positions which item of the source it still is     *)
(* (0: none).  mem is [config, sources, aliased, links].                    *)
(***************************************************************************)
\* the old list after a change of the items it shares
LinkedItems(old, link, items, pm) ==
    [j \in 1..Len(old) |->
        IF link[j] > 0 /\ pm[link[j]] > 0 THEN items[pm[link[j]]] ELSE old[j]]

\* the links of an old list after the items moved as pm tells
Relinked(link, pm) ==
    [j \in 1..Len(link) |-> IF link[j] > 0 THEN pm[link[j]] ELSE 0]

\* only lists that still share an item are kept in links
Normalised(lk) ==
    [k \in {n \in DOMAIN lk : \E j \in 1..Len(lk[n]) : lk[n][j] > 0} |-> lk[k]]

ConfigAfter(mem, k, items, pm) ==
    IF k \in mem.aliased THEN [mem.config EXCEPT !["items"][k] = items]
    ELSE IF k \in DOMAIN mem.links
    THEN [mem.config EXCEPT !["items"][k] = LinkedItems(@, mem.links[k], items, pm)]
    ELSE mem.config

LinksAfter(mem, k, pm) ==
    IF k \in DOMAIN mem.links
    THEN Normalised([mem.links EXCEPT ![k] = Relinked(@, pm)])
    ELSE mem.links

\* The item list of source k was changed in place into items; pm tells
\* where each item of the list before is now (0: no longer in the list).
InPlace(mem, k, items, pm) ==
    [config |-> ConfigAfter(mem, k, items, pm),
     sources |-> [mem.sources EXCEPT ![k].items = items],
     aliased |-> mem.aliased,
     links |-> LinksAfter(mem, k, pm)]

\* Variant of cleanup_simulation_items: only the first source of the
\* registry is cleaned.
cleanup_first_source_only(mem) ==
    [config |-> mem.config,
     sources |-> [k \in DOMAIN mem.sources |->
                    IF k = (CHOOSE n \in DOMAIN mem.sources : TRUE)
                    THEN [mem.sources[k] EXCEPT
                              !.items = Moved(@, FilterMap(@))]
                    ELSE mem.sources[k]],
     aliased |-> {},
     links |-> EmptyMap]

\* cleanup_simulation_items, lines 511-512: every source gets a new list
\* without the marked items; the lists under config["items"] stay as they are
cleanup_simulation_items(mem) ==
    [config |-> mem.config,
     sources |-> [k \in DOMAIN mem.sources |->
                    [mem.sources[k] EXCEPT !.items = Moved(@, FilterMap(@))]],
     aliased |-> {},
     links |-> Normalised(
        [k \in mem.aliased \cup DOMAIN mem.links |->
            IF k \in mem.aliased THEN FilterMap(mem.sources[k].items)
            ELSE Relinked(mem.links[k], FilterMap(mem.sources[k].items))])]

\* the outcome of an operation that raised or returned early: nothing changed
Unchanged(mem, ok, err) ==
    [ok |-> ok, err |-> err, mem |-> mem, saved |-> FALSE, newids |-> {}]

\* send_event and cleanup_simulation_items after the detail routine gave d;
\* where the routine raised, what it did to the items before stays, unsaved
Emitted(mem, event_type, d, answers) ==
    IF ~d.ok
    THEN [ok |-> FALSE, err |-> "raised",
          mem |-> InPlace(mem, event_type, d.items,
                          IdMap(Len(mem.sources[event_type].items))),
          saved |-> FALSE, newids |-> {}]
    ELSE [ok |-> TRUE, err |-> "none",
          mem |-> cleanup_simulation_items(
                      InPlace(mem, event_type, Decided(d.items, answers),
                              IdMap(Len(mem.sources[event_type].items)))),
          saved |-> TRUE,
          newids |-> IF d.created THEN {d.items[Len(d.items)]["id"]} ELSE {}]

\* Variant of Details: every routine tracks an item the way the sensor
\* routines do.
DetailsTrackEveryType(event_type, src, in) == SensorDetails(event_type, src, in)

\* what the detail routine of the event type does to the items of its source
Details(event_type, src, in) ==
    IF event_type \in {"Motion_Sensor_Alert", "IR_Sensor_Alert"}
    THEN SensorDetails(event_type, src, in)
    ELSE [ok |-> TRUE, created |-> FALSE, items |-> src.items]

\* Variant of simulate_event: the cleanup runs for an unknown type too.
simulate_event_cleanup_always(mem, event_type, in, answers) ==
    IF event_type \notin ValidEventTypes
    THEN [ok |-> TRUE, err |-> "unknown event type",
          mem |-> cleanup_simulation_items(mem), saved |-> TRUE, newids |-> {}]
    ELSE IF event_type \notin DOMAIN mem.sources
    THEN Unchanged(mem, FALSE, "raised")
    ELSE Emitted(mem, event_type,
                 Details(event_type, mem.sources[event_type], in), answers)

\* simulate_event(event_type, manual): an unknown type is reported and
\* nothing is done; the detail routine of a type whose source is not
\* registered raises KeyError
simulate_event(mem, event_type, in, answers) ==
    IF event_type \notin ValidEventTypes
    THEN Unchanged(mem, TRUE, "unknown event type")
    ELSE IF event_type \notin DOMAIN mem.sources
    THEN Unchanged(mem, FALSE, "raised")
    ELSE Emitted(mem, event_type,
                 Details(event_type, mem.sources[event_type], in), answers)

(***************************************************************************)
(* manage_settings_for_alert_source: the operator picks a source by number *)
(* or by name and adds, edits or deletes one setting, then goes back.      *)
(* names is list_alert_sources(), the keys of the registry in their order; *)
(* every line is a sequence of characters as typed.                        *)
(***************************************************************************)
\* the names a setting has in the model: those of the default document and
\* one the operator makes up
SettingKeys == {"default_severity", "default_status", "default_user", "unit"}

\* the characters of the name of a setting
SettingKeyChars(k) ==
    CASE k = "default_severity" ->
           <<"d", "e", "f", "a", "u", "l", "t", "_", "s", "e", "v", "e", "r", "i", "t", "y">>
      [] k = "default_status" ->
           <<"d", "e", "f", "a", "u", "l", "t", "_", "s", "t", "a", "t", "u", "s">>
      [] k = "default_user" ->
           <<"d", "e", "f", "a", "u", "l", "t", "_", "u", "s", "e", "r">>
      [] k = "unit" -> <<"u", "n", "i", "t">>

\* the key of a mapping of settings the typed characters spell
SettingNamed(chars) == CHOOSE k \in SettingKeys : SettingKeyChars(k) = chars

Back == <<"b", "a", "c", "k">>

NotSelected(err) == [ok |-> FALSE, err |-> err, selected |-> ""]

\* lines 203-224: the source the typed choice selects
SelectSource(names, line) ==
    IF names = <<>> THEN NotSelected("no_sources")
    ELSE IF Lower(Strip(line)) = Back THEN NotSelected("back")
    ELSE IF PyInt(Strip(line)).ok
    THEN IF 0 <= PyInt(Strip(line)).val - 1 /\ PyInt(Strip(line)).val - 1 < Len(names)
         THEN [ok |-> TRUE, err |-> "none", selected |-> names[PyInt(Strip(line)).val]]
         ELSE NotSelected("invalid_number")
    ELSE IF \E i \in 1..Len(names) : Chars(names[i]) = Strip(line)
    THEN [ok |-> TRUE, err |-> "none",
          selected |-> names[CHOOSE i \in 1..Len(names) : Chars(names[i]) = Strip(line)]]
    ELSE NotSelected("invalid_name")

\* key in settings, for a typed key
HasSetting(settings, key) == \E k \in DOMAIN settings : SettingKeyChars(k) = key

\* settings[key] = value
SetSetting(settings, k, value) ==
    [x \in DOMAIN settings \cup {k} |-> IF x = k THEN value ELSE settings[x]]

\* del settings[key]
DelSetting(settings, k) == [x \in DOMAIN settings \ {k} |-> settings[x]]

SettingsKept(err, settings) ==
    [ok |-> FALSE, err |-> err, settings |-> settings, saved |-> FALSE]

SettingsSaved(settings) ==
    [ok |-> TRUE, err |-> "none", settings |-> settings, saved |-> TRUE]

\* Variant of settings_action: editing a key that is absent creates it.
settings_action_edit_creates(settings, action, key, value) ==
    IF action = <<"a">> \/ action = <<"e">>
    THEN IF key = <<>> THEN SettingsKept("empty_name", settings)
         ELSE SettingsSaved(SetSetting(settings, SettingNamed(key), value))
    ELSE IF action = <<"d">> /\ HasSetting(settings, key)
    THEN SettingsSaved(DelSetting(settings, SettingNamed(key)))
    ELSE SettingsKept("not_found", settings)

\* lines 237-265, one pass of the loop, for the stripped lines: action is
\* lower case already
settings_action(settings, action, key, value) ==
    CASE action = <<"a">> ->
           IF key = <<>> THEN SettingsKept("empty_name", settings)
           ELSE SettingsSaved(SetSetting(settings, SettingNamed(key), value))
      [] action = <<"e">> ->
           IF ~HasSetting(settings, key) THEN SettingsKept("not_found", settings)
           ELSE SettingsSaved(SetSetting(settings, SettingNamed(key), value))
      [] action = <<"d">> ->
           IF HasSetting(settings, key)
           THEN SettingsSaved(DelSetting(settings, SettingNamed(key)))
           ELSE SettingsKept("not_found", settings)
      [] action = <<"b">> ->
           [ok |-> TRUE, err |-> "none", settings |-> settings, saved |-> FALSE]
      [] OTHER -> SettingsKept("invalid_action", settings)

\* the registry with the settings of one source replaced
WithSettings(sources, name, settings) ==
    [sources EXCEPT ![name].settings = settings]

\* the outcome of the menu when the pass of the loop gave r
SettingsDone(sources, selected, r) ==
    [ok |-> r.ok, err |-> r.err, selected |-> selected,
     sources |-> WithSettings(sources, selected, r.settings), saved |-> r.saved]

\* lines 225-265 for the selection sel and the stripped lines
SettingsOf(sources, sel, action, key, value) ==
    IF ~sel.ok
    THEN [ok |-> FALSE, err |-> sel.err, selected |-> "", sources |-> sources,
          saved |-> FALSE]
    ELSE SettingsDone(sources, sel.selected,
                      settings_action(sources[sel.selected].settings, action, key, value))

\* manage_settings_for_alert_source with the lines typed at the prompts:
\* the choice of the source, one action with its key and value, then b
\* (or b at once, which leaves the loop)
manage_settings(sources, names, choice, action, key, value) ==
    SettingsOf(sources, SelectSource(names, choice), Lower(Strip(action)), Strip(key),
               Strip(value))

(***************************************************************************)
(* What simulate_event lets out: the envelopes send_event prints (and      *)
(* hands to the sink) and the number of input() calls made.  Of the event  *)
(* data the model keeps the fields that come from an item or from a line   *)
(* the operator typed; eventId, eventTimestamp and the values of the fake  *)
(* data provider are left out.                                             *)
(***************************************************************************)
Low == <<"L", "o", "w">>
High == <<"H", "i", "g", "h">>
Critical == <<"C", "r", "i", "t", "i", "c", "a", "l">>

\* possible_severities of _get_siem_alert_details
PossibleSeverities == {Low, Medium, High, Critical}

\* settings.get("default_severity", "Medium")
DefaultSeverity(settings) ==
    IF "default_severity" \in DOMAIN settings THEN settings["default_severity"] ELSE Medium

\* lines 531-534 and 540: the severity of a SIEM event
SiemSeverity(in, settings) ==
    IF in.manual
    THEN StatusOrDefault(Strip(Capitalize(in.status)), PossibleSeverities,
                         DefaultSeverity(settings))
    ELSE in.random_status

\* the number of input() calls of the detail routine in manual mode
ManualPrompts(event_type) ==
    CASE event_type = "SIEM_Alert" -> 5
      [] event_type = "Login_Alert" -> 4
      [] event_type = "Smart_Fence_Alert" -> 3
      [] event_type = "Location_Based_Alert" -> 5
      [] event_type = "Motion_Sensor_Alert" -> 3
      [] event_type = "IR_Sensor_Alert" -> 3

AskedByRoutine(event_type, in) == IF in.manual THEN ManualPrompts(event_type) ELSE 0

\* lines 667-672 and 702-706: the item the routine found or appended gives
\* itemId, location and status of the event
SensorEventData(item) ==
    [itemId |-> item["id"], location |-> item["location"], status |-> item["value"]]

\* the position in d.items of the item the routine worked on
TrackedPosition(src, d, in) ==
    IF FindByLocation(src.items, SensorLocation(in)) > 0
    THEN FindByLocation(src.items, SensorLocation(in))
    ELSE Len(d.items)

\* the dict the detail routine returns, after it left the items as d.items
EventData(event_type, src, d, in) ==
    IF event_type \in {"Motion_Sensor_Alert", "IR_Sensor_Alert"}
    THEN SensorEventData(d.items[TrackedPosition(src, d, in)])
    ELSE IF event_type = "SIEM_Alert"
    THEN [severity |-> SiemSeverity(in, src.settings)]
    ELSE EmptyMap

\* _convert_to_crc_format, and what send_event does with the envelope:
\* printed in any case; with a base URL the request is commented out and
\* only a note is logged (lines 479-494)
Envelope(url, event_type, event_data) ==
    [eventType |-> event_type, data |-> event_data,
     sink |-> IF url # NoBaseUrl THEN "sending disabled" ELSE "console only"]

\* what a call of simulate_event lets out: [events, asked]
Output(mem, url, event_type, in, answers) ==
    IF event_type \notin ValidEventTypes \/ event_type \notin DOMAIN mem.sources
    THEN [events |-> <<>>, asked |-> 0]
    ELSE IF ~Details(event_type, mem.sources[event_type], in).ok
    THEN [events |-> <<>>, asked |-> AskedByRoutine(event_type, in)]
    ELSE [events |-> <<Envelope(url, event_type,
                                EventData(event_type, mem.sources[event_type],
                                          Details(event_type, mem.sources[event_type], in),
                                          in))>>,
          asked |-> AskedByRoutine(event_type, in) + Len(answers)]

(***************************************************************************)
(* Inputs of the model                                                     *)
(***************************************************************************)
StrA == <<"A">>
StrB == <<"B">>
Str5 == <<"5">>

IdDEM001 == <<"D", "E", "M", "-", "0", "0", "1">>
IdMOT001 == <<"M", "O", "T", "-", "0", "0", "1">>
IdSIE001 == <<"S", "I", "E", "-", "0", "0", "1">>

DemoThresholds == ("val" :> ListT(<<StrA, StrB>>)) @@ ("num" :> RangeT(1, 10))

\* A document of the old layout: per-type keys and a top-level items mapping.
LegacyDoc ==
    ("Motion_Sensor_Alert" :>
        (("default_status" :> Clear) @@
         ("thresholds" :> ("location" :> ListT(<<StrA, StrB>>))) @@
         ("fields" :> <<"location">>) @@
         ("items" :> <<("id" :> IdDEM001)>>))) @@
    ("items" :>
        (("Motion_Sensor_Alert" :> <<("id" :> IdMOT001) @@ ("location" :> StrA)>>) @@
         ("Demo" :> <<("id" :> IdDEM001) @@ ("val" :> StrA)>>)))

\* A document of the current layout that still carries old keys.
CanonicalDoc ==
    ("alert_sources" :>
        (("Demo" :>
            [fields |-> <<"val", "num">>,
             thresholds |-> DemoThresholds,
             settings |-> ("unit" :> StrA),
             items |-> <<("id" :> IdDEM001) @@ ("val" :> StrB) @@ ("num" :> Str5)>>]) @@
         ("SIEM_Alert" :> NewSource(default_fields["SIEM_Alert"])))) @@
    ("SIEM_Alert" :>
        (("default_severity" :> Medium) @@
         ("thresholds" :> ("severity" :> ListT(<<Medium>>))))) @@
    ("items" :> ("SIEM_Alert" :> <<("id" :> IdSIE001) @@ ("severity" :> Medium)>>))

\* A document whose alert_sources mapping is present and empty.
EmptiedDoc == "alert_sources" :> EmptyMap

InitialFiles ==
    {NoFile, CorruptFile, FileOf(LegacyDoc), FileOf(CanonicalDoc), FileOf(EmptiedDoc)}

\* names given to add_alert_source and remove_alert_source
OpNames == {"Demo", "SIEM_Alert", "Motion_Sensor_Alert"}

\* field lists given to add_alert_source
FieldLists == {<<"val">>, <<"val", "num">>}

\* sources add_item_to_source and edit_item_in_source are called on
ItemSources == {"Demo"}

\* sources remove_item_from_source is called on
RemoveItemSources == {"Demo", "Motion_Sensor_Alert"}

\* lines typed at the prompts of the item operations
InputValues == {<<>>, StrA, <<" ", "5">>}

\* the lines typed for a source with n fields; every combination for up to
\* two fields, a few patterns for more
InputVectors(n) ==
    IF n <= 2 THEN [1..n -> InputValues]
    ELSE {[i \in 1..n |-> v] : v \in {<<>>, StrA}}
         \cup {[i \in 1..n |-> IF i = 1 THEN StrA ELSE <<>>]}

(***************************************************************************)
(* The state machine                                                       *)
(***************************************************************************)
NoArg == <<>>

\* The history of id allocations is kept only in the specifications whose
\* properties speak of past allocations.
Untracked == [tracking |-> FALSE, allocated |-> {}, given |-> {}]
Tracked == [tracking |-> TRUE, allocated |-> {}, given |-> {}]

\* the history after the ids newids were given to new items of source:
\* given holds the ids of this operation, allocated those of the session
Allocated(source, newids) ==
    IF history.tracking
    THEN [tracking |-> TRUE,
          allocated |-> history.allocated \cup {<<source, id>> : id \in newids},
          given |-> {<<source, id>> : id \in newids}]
    ELSE history

Result(op, name, ok, err, arg) ==
    [op |-> op, name |-> name, ok |-> ok, err |-> err, arg |-> arg]

\* CRCSimulator(config_file=...) on the file f
Constructed(f) ==
    LET c == Construct(f) IN
    /\ config' = c.config
    /\ alert_sources' = c.alert_sources
    /\ aliased' = c.aliased
    /\ links' = EmptyMap
    /\ disk' = c.disk
    /\ last' = Result("construct", "", TRUE, "none",
                      [file |-> f, migrated |-> c.migrated])
    /\ history' = [history EXCEPT !.allocated = {}, !.given = {}]
    /\ UNCHANGED crc_api_base_url

Init ==
    \E f \in InitialFiles :
        LET c == Construct(f) IN
        /\ config = c.config
        /\ alert_sources = c.alert_sources
        /\ aliased = c.aliased
        /\ links = EmptyMap
        /\ disk = c.disk
        /\ last = Result("construct", "", TRUE, "none",
                         [file |-> f, migrated |-> c.migrated])
        /\ history = Untracked
        /\ crc_api_base_url = NoBaseUrl

\* A new simulator is constructed from the same config file.
Reconstruct == Constructed(disk)

AddAlertSource(name, fields) ==
    LET r == add_alert_source(alert_sources, name, fields) IN
    /\ alert_sources' = r.sources
    /\ disk' = IF r.ok /\ disk.kind # "unreadable"
               THEN SavedFile(config, r.sources) ELSE disk
    /\ last' = Result("add_alert_source", name, r.ok, r.err, fields)
    /\ UNCHANGED <<config, aliased, links, crc_api_base_url, history>>

RemoveAlertSource(name) ==
    LET r == remove_alert_source(alert_sources, name) IN
    /\ alert_sources' = r.sources
    /\ disk' = IF r.ok /\ disk.kind # "unreadable"
               THEN SavedFile(config, r.sources) ELSE disk
    /\ aliased' = IF r.ok THEN aliased \ {name} ELSE aliased
    /\ links' = IF r.ok THEN [k \in DOMAIN links \ {name} |-> links[k]] ELSE links
    /\ last' = Result("remove_alert_source", name, r.ok, r.err, NoArg)
    /\ UNCHANGED <<config, crc_api_base_url, history>>

\* the objects of the simulator
Mem == [config |-> config, sources |-> alert_sources, aliased |-> aliased,
        links |-> links]

\* The simulator after an operation left the objects m; where saved, the
\* operation ended with save_config.
Becomes(m, saved) ==
    /\ alert_sources' = m.sources
    /\ config' = m.config
    /\ aliased' = m.aliased
    /\ links' = m.links
    /\ disk' = IF saved /\ disk.kind # "unreadable"
               THEN SavedFile(m.config, m.sources) ELSE disk
    /\ UNCHANGED crc_api_base_url

\* The outcome r of an item operation: the item list of the source is
\* changed in place (pm: where each item of the list is afterwards), and
\* where r.saved the change is followed by save_config.
ItemsChanged(op, source, r, arg, newids, pm) ==
    /\ Becomes(InPlace(Mem, source, r.items, pm), r.saved)
    /\ last' = Result(op, source, r.ok, r.err, arg)
    /\ history' = Allocated(source, newids)

\* the id of the item an add appended
AddedIds(r) == IF r.ok THEN {r.items[Len(r.items)]["id"]} ELSE {}

\* the item numbers in use stay below the bound
IdsBelowBound(e, bound) == e.ok => \A n \in e.ids : n < bound

\* add_item_to_source(source), while the list and its ids are within
\* bounds; arg is what the outcome records of the call
AddItemRecorded(source, raw, maxItems, maxId, arg) ==
    /\ source \in DOMAIN alert_sources
    /\ Len(alert_sources[source].items) < maxItems
    /\ IdsBelowBound(ExistingIds(alert_sources[source].items, ItemIdPrefix(source)),
                     maxId)
    /\ ItemsChanged("add_item_to_source", source,
                    add_item_to_source(alert_sources, source, raw), arg,
                    AddedIds(add_item_to_source(alert_sources, source, raw)),
                    IdMap(Len(alert_sources[source].items)))

AddItemWithin(source, raw, maxItems, maxId) ==
    AddItemRecorded(source, raw, maxItems, maxId, NoArg)

AddItem(source, raw) == AddItemWithin(source, raw, MaxItems, MaxIdNum)

EditItem(source, idx, raw) ==
    /\ source \in DOMAIN alert_sources
    /\ ItemsChanged("edit_item_in_source", source,
                    edit_item_in_source(alert_sources, source, idx, raw), idx, {},
                    IdMap(Len(alert_sources[source].items)))

\* items.pop(idx) where the removal went through
RemovedMap(r, n, idx) == IF r.saved THEN PopMap(n, idx) ELSE IdMap(n)

RemoveItem(source, idx) ==
    /\ source \in DOMAIN alert_sources
    /\ ItemsChanged("remove_item_from_source", source,
                    remove_item_from_source(alert_sources, source, idx), idx, {},
                    RemovedMap(remove_item_from_source(alert_sources, source, idx),
                               Len(alert_sources[source].items), idx))

Next ==
    \/ Reconstruct
    \/ \E name \in OpNames, fields \in FieldLists : AddAlertSource(name, fields)
    \/ \E name \in OpNames : RemoveAlertSource(name)
    \/ \E source \in ItemSources :
         \E raw \in InputVectors(IF source \in DOMAIN alert_sources
                                 THEN Len(alert_sources[source].fields) ELSE 0) :
            AddItem(source, raw)
    \/ \E source \in ItemSources, idx \in 1..(MaxItems + 1) :
         \E raw \in InputVectors(IF source \in DOMAIN alert_sources
                                 THEN Len(alert_sources[source].fields) ELSE 0) :
            EditItem(source, idx, raw)
    \/ \E source \in RemoveItemSources, idx \in 1..(MaxItems + 1) :
         RemoveItem(source, idx)

Spec == Init /\ [][Next]_vars

(***************************************************************************)
(* Simulated events: simulate_event, cleanup_simulation_items and the item *)
(* operations on the sensor sources.                                       *)
(***************************************************************************)
IdMOT003 == <<"M", "O", "T", "-", "0", "0", "3">>
IdDEM002 == <<"D", "E", "M", "-", "0", "0", "2">>

\* Documents of the current layout whose sources have no items.
MotionDoc ==
    "alert_sources" :>
        (("Motion_Sensor_Alert" :> NewSource(<<"location">>)) @@
         ("SIEM_Alert" :> NewSource(<<"severity">>)))

IRDoc == "alert_sources" :> ("IR_Sensor_Alert" :> NewSource(<<"location">>))

\* A document of the current layout: the motion source with a gap in the
\* numbering of its items and an auto-generated item no decision was taken
\* on, and a source with an item left marked for removal.
SensorDoc ==
    "alert_sources" :>
        (("Motion_Sensor_Alert" :>
            [fields |-> <<"location">>,
             thresholds |-> EmptyMap,
             settings |-> ("default_status" :> Clear),
             items |-> <<("id" :> IdMOT001) @@ ("location" :> StrB),
                         AutoItem(IdMOT003, AutoNameLabel("Motion_Sensor_Alert"),
                                  StrA, Detected)>>]) @@
         ("Demo" :>
            [fields |-> <<"val">>,
             thresholds |-> EmptyMap,
             settings |-> EmptyMap,
             items |-> <<("id" :> IdDEM001) @@ ("val" :> StrA) @@
                            ("_remove_after_simulation" :> PyTrue),
                         ("id" :> IdDEM002) @@ ("val" :> StrB)>>]))

SimFiles == {FileOf(MotionDoc), FileOf(IRDoc), FileOf(SensorDoc)}

\* event types given to simulate_event ("Demo" is no event type)
SimEventTypes == {"Motion_Sensor_Alert", "IR_Sensor_Alert", "SIEM_Alert", "Demo"}

\* sources the item operations are called on
SimItemSources == {"Motion_Sensor_Alert", "IR_Sensor_Alert", "a-1", "été"}

Room101 == <<"R", "o", "o", "m", " ", "1", "0", "1">>
Corridor1 == <<"C", "o", "r", "r", "i", "d", "o", "r", " ", "1">>
Doorway1 == <<"D", "o", "o", "r", "w", "a", "y", " ", "1">>
MainGate1 == <<"M", "a", "i", "n", " ", "G", "a", "t", "e", " ", "1">>

\* a location the random generator can give: lines 647 and 651, 682 and 686
RandomLocation(event_type, manual) ==
    IF event_type = "IR_Sensor_Alert"
    THEN (IF manual THEN Doorway1 ELSE MainGate1)
    ELSE (IF manual THEN Room101 ELSE Corridor1)

\* what simulate_event(event_type, manual) is given: the lines typed at the
\* prompts of the manual mode, and the draws of the random generator
SimInputs(event_type) ==
    {[manual |-> TRUE, location |-> t[1], status |-> t[2],
      random_location |-> RandomLocation(event_type, TRUE),
      random_status |-> Detected] :
        t \in {<<StrA, <<>> >>, <<<<" ", "A">>, <<"c", "l", "e", "a", "r">> >>}}
    \cup
    {[manual |-> FALSE, location |-> <<>>, status |-> <<>>,
      random_location |-> RandomLocation(event_type, FALSE),
      random_status |-> Clear]}

\* answers typed at the prompt of send_event
AnswerValues == {<<" ", "Y">>, <<"n">>}

\* the number of items send_event will ask about
Prompts(event_type, in) ==
    IF event_type \in ValidEventTypes /\ event_type \in DOMAIN alert_sources
    THEN Cardinality(AutoGenerated(
             Details(event_type, alert_sources[event_type], in).items))
    ELSE 0

InitSim ==
    \E f \in SimFiles :
        LET c == Construct(f) IN
        /\ config = c.config
        /\ alert_sources = c.alert_sources
        /\ aliased = c.aliased
        /\ links = EmptyMap
        /\ disk = c.disk
        /\ last = Result("construct", "", TRUE, "none",
                         [file |-> f, migrated |-> c.migrated])
        /\ history = Untracked
        /\ crc_api_base_url = NoBaseUrl

\* the outcome r of simulate_event
Simulated(event_type, r, arg) ==
    /\ Becomes(r.mem, r.saved)
    /\ last' = Result("simulate_event", event_type, r.ok, r.err, arg)
    /\ history' = Allocated(event_type, r.newids)

\* the source of the event stays within the bounds
WithinSimBounds(event_type, r) ==
    event_type \in DOMAIN alert_sources =>
        Len(r.mem.sources[event_type].items) <= MaxSimItems

\* the item numbers of the source of the event stay within the bounds
SimIdsWithinBounds(event_type) ==
    event_type \in DOMAIN alert_sources =>
        IdsBelowBound(ExistingIds(alert_sources[event_type].items,
                                  AutoIdPrefix(event_type)), MaxSimIdNum)

SimulateEvent(event_type, in, answers) ==
    /\ WithinSimBounds(event_type, simulate_event(Mem, event_type, in, answers))
    /\ Simulated(event_type, simulate_event(Mem, event_type, in, answers),
                 [in |-> in, answers |-> answers])

\* cleanup_simulation_items() called on its own
Cleanup ==
    /\ Becomes(cleanup_simulation_items(Mem), TRUE)
    /\ last' = Result("cleanup_simulation_items", "", TRUE, "none", NoArg)
    /\ history' = [history EXCEPT !.given = {}]

SimAddItem(source, raw) == AddItemWithin(source, raw, MaxSimItems, MaxSimIdNum)

NextSim ==
    \/ \E event_type \in {t \in SimEventTypes : SimIdsWithinBounds(t)} :
         \E in \in SimInputs(event_type) :
            \E answers \in [1..Prompts(event_type, in) -> AnswerValues] :
                SimulateEvent(event_type, in, answers)
    \/ Cleanup
    \/ \E source \in SimItemSources :
         \E raw \in InputVectors(IF source \in DOMAIN alert_sources
                                 THEN Len(alert_sources[source].fields) ELSE 0) :
            SimAddItem(source, raw)
    \/ \E source \in SimItemSources, idx \in 1..MaxSimItems :
         RemoveItem(source, idx)

SpecSim == InitSim /\ [][NextSim]_vars

\* The same operations from the motion source without items, with the
\* history of the ids given to new items.
InitIds ==
    /\ config = Construct(FileOf(MotionDoc)).config
    /\ alert_sources = Construct(FileOf(MotionDoc)).alert_sources
    /\ aliased = {}
    /\ links = EmptyMap
    /\ disk = FileOf(MotionDoc)
    /\ last = Result("construct", "", TRUE, "none",
                     [file |-> FileOf(MotionDoc), migrated |-> FALSE])
    /\ history = Tracked
    /\ crc_api_base_url = NoBaseUrl

SpecIds == InitIds /\ [][NextSim]_vars

\* The same operations on two operator-defined sources without items: the
\* name of one has a dash among its first three characters, the name of
\* the other letters beyond ASCII.
DashDoc ==
    "alert_sources" :>
        (("a-1" :> NewSource(<<"val">>)) @@ ("été" :> NewSource(<<"val">>)))

InitDash ==
    /\ config = Construct(FileOf(DashDoc)).config
    /\ alert_sources = Construct(FileOf(DashDoc)).alert_sources
    /\ aliased = {}
    /\ links = EmptyMap
    /\ disk = FileOf(DashDoc)
    /\ last = Result("construct", "", TRUE, "none",
                     [file |-> FileOf(DashDoc), migrated |-> FALSE])
    /\ history = Untracked
    /\ crc_api_base_url = NoBaseUrl

SpecDash == InitDash /\ [][NextSim]_vars

(***************************************************************************)
(* simulate_event as the operator sees it: what a call lets out is kept in *)
(* the outcome of the call.  The simulator is constructed with or without  *)
(* an API base URL, on a document with thresholds on the fields the        *)
(* operator types and with an item left marked for removal; sources are    *)
(* removed and added in between.                                           *)
(***************************************************************************)
OrchDoc ==
    "alert_sources" :>
        (("Motion_Sensor_Alert" :>
            [fields |-> <<"location">>,
             thresholds |-> ("location" :> ListT(<<StrB>>)),
             settings |-> EmptyMap,
             items |-> <<>>]) @@
         ("SIEM_Alert" :>
            [fields |-> <<"severity">>,
             thresholds |-> ("severity" :> ListT(<<Medium>>)),
             settings |-> ("default_severity" :> Medium),
             items |-> <<>>]) @@
         ("Demo" :>
            [fields |-> <<"val">>,
             thresholds |-> ("val" :> ListT(<<StrA, StrB>>)),
             settings |-> EmptyMap,
             items |-> <<("id" :> IdDEM001) @@ ("val" :> StrA) @@
                            ("_remove_after_simulation" :> PyTrue),
                         ("id" :> IdDEM002) @@ ("val" :> StrB)>>]))

\* values of crc_api_base_url
BaseUrls == {NoBaseUrl, "http://localhost:8080"}

\* event types given to simulate_event: two well-known ones, a registered
\* source that is no event type, and a name that is neither
OrchEventTypes == {"Motion_Sensor_Alert", "SIEM_Alert", "Demo", "TestAlert"}

\* sources removed and added again
OrchNames == {"Motion_Sensor_Alert", "Demo"}

\* a status or severity typed in lower case
TypedStatus(event_type) ==
    IF event_type = "SIEM_Alert" THEN <<"h", "i", "g", "h">>
    ELSE <<"c", "l", "e", "a", "r">>

\* a status or severity the random generator can give
RandomStatus(event_type) == IF event_type = "SIEM_Alert" THEN Critical ELSE Clear

OrchInputs(event_type) ==
    {[manual |-> TRUE, location |-> t[1], status |-> t[2],
      random_location |-> RandomLocation(event_type, TRUE),
      random_status |-> RandomStatus(event_type)] :
        t \in {<<StrA, <<>> >>, <<<<" ", "B">>, TypedStatus(event_type)>>}}
    \cup
    {[manual |-> FALSE, location |-> <<>>, status |-> <<>>,
      random_location |-> RandomLocation(event_type, FALSE),
      random_status |-> RandomStatus(event_type)]}

InitOrch ==
    \E url \in BaseUrls :
        /\ config = Construct(FileOf(OrchDoc)).config
        /\ alert_sources = Construct(FileOf(OrchDoc)).alert_sources
        /\ aliased = {}
        /\ links = EmptyMap
        /\ disk = FileOf(OrchDoc)
        /\ crc_api_base_url = url
        /\ last = Result("construct", "", TRUE, "none",
                         [file |-> FileOf(OrchDoc), migrated |-> FALSE])
        /\ history = Untracked

\* simulate_event, with what it let out kept in the outcome
ObservedSimulateEvent(event_type, in, answers) ==
    /\ SimIdsWithinBounds(event_type)
    /\ WithinSimBounds(event_type, simulate_event(Mem, event_type, in, answers))
    /\ Simulated(event_type, simulate_event(Mem, event_type, in, answers),
                 [in |-> in, answers |-> answers,
                  events |-> Output(Mem, crc_api_base_url, event_type, in, answers).events,
                  asked |-> Output(Mem, crc_api_base_url, event_type, in, answers).asked])

NextOrch ==
    \/ \E event_type \in OrchEventTypes :
         \E in \in OrchInputs(event_type) :
            \E answers \in [1..Prompts(event_type, in) -> AnswerValues] :
                ObservedSimulateEvent(event_type, in, answers)
    \/ \E name \in OrchNames : RemoveAlertSource(name)
    \/ \E name \in OrchNames : AddAlertSource(name, <<"location">>)

SpecOrch == InitOrch /\ [][NextOrch]_vars

(***************************************************************************)
(* The four event types whose detail routine reads only the settings of    *)
(* its source: _get_siem_alert_details, _get_login_alert_details,          *)
(* _get_smart_fence_alert_details and _get_location_based_alert_details.   *)
(* The registry holds the four sources with items, one of them flagged     *)
(* auto_generated and one marked for removal; sources and items are        *)
(* removed between the calls.                                              *)
(***************************************************************************)

IdLOG001 == <<"L", "O", "G", "-", "0", "0", "1">>
IdLOG002 == <<"L", "O", "G", "-", "0", "0", "2">>
IdSMA001 == <<"S", "M", "A", "-", "0", "0", "1">>

FrameDoc ==
    "alert_sources" :>
        (("SIEM_Alert" :>
            [fields |-> <<"severity">>,
             thresholds |-> ("severity" :> ListT(<<Medium>>)),
             settings |-> ("default_severity" :> Medium),
             items |-> <<("id" :> IdSIE001) @@ ("severity" :> Medium)>>]) @@
         ("Login_Alert" :>
            [fields |-> <<"location">>,
             thresholds |-> ("location" :> ListT(<<StrA, StrB>>)),
             settings |-> EmptyMap,
             items |-> <<("id" :> IdLOG001) @@ ("location" :> StrA),
                         ("id" :> IdLOG002) @@ ("location" :> StrB) @@
                             ("auto_generated" :> PyTrue)>>]) @@
         ("Smart_Fence_Alert" :>
            [fields |-> <<"location">>,
             thresholds |-> EmptyMap,
             settings |-> EmptyMap,
             items |-> <<("id" :> IdSMA001) @@ ("location" :> StrA) @@
                             ("_remove_after_simulation" :> PyTrue)>>]) @@
         ("Location_Based_Alert" :>
            [fields |-> <<"location">>,
             thresholds |-> ("location" :> RangeT(1, 10)),
             settings |-> EmptyMap,
             items |-> <<>>]))

\* the event types simulated
FrameEventTypes ==
    {"SIEM_Alert", "Login_Alert", "Smart_Fence_Alert", "Location_Based_Alert"}

\* sources removed between the calls
FrameNames == {"SIEM_Alert", "Location_Based_Alert"}

\* sources an item is removed from between the calls
FrameItemSources == {"Login_Alert", "Smart_Fence_Alert"}

InitFrame ==
    \E url \in BaseUrls :
        /\ config = Construct(FileOf(FrameDoc)).config
        /\ alert_sources = Construct(FileOf(FrameDoc)).alert_sources
        /\ aliased = {}
        /\ links = EmptyMap
        /\ disk = FileOf(FrameDoc)
        /\ crc_api_base_url = url
        /\ last = Result("construct", "", TRUE, "none",
                         [file |-> FileOf(FrameDoc), migrated |-> FALSE])
        /\ history = Untracked

NextFrame ==
    \/ \E event_type \in FrameEventTypes :
         \E in \in OrchInputs(event_type) :
            \E answers \in [1..Prompts(event_type, in) -> AnswerValues] :
                ObservedSimulateEvent(event_type, in, answers)
    \/ \E name \in FrameNames : RemoveAlertSource(name)
    \/ \E source \in FrameItemSources :
         \E idx \in 1..2 : RemoveItem(source, idx)

SpecFrame == InitFrame /\ [][NextFrame]_vars

(***************************************************************************)
(* ConfigManager on its own: load_config and save_config on files of every *)
(* kind, and the simulator constructed on the file and saved unmodified.   *)
(* Here config is the whole of ConfigManager.config, the "alert_sources"   *)
(* entry included: a DictValue, or the list or str load_config let through.*)
(***************************************************************************)
\* a str with a quote, a backslash, a letter beyond ASCII and a newline
QuotedText == <<"A", "\"", "\\", "é", "\n">>

\* the values a top-level entry of the documents takes: the first and the
\* second choice of each key
DocEntry(k, n) ==
    CASE k = "SIEM_Alert" ->
           IF n = 1 THEN ("default_severity" :> High)
           ELSE ("thresholds" :> ("severity" :> ListT(<<Medium>>)))
      [] k = "items" ->
           IF n = 1 THEN EmptyMap
           ELSE ("SIEM_Alert" :> <<("id" :> IdSIE001) @@ ("severity" :> Medium)>>)
      [] k = "alert_sources" ->
           IF n = 1 THEN EmptyMap ELSE ("Demo" :> NewSource(<<"val">>))
      [] k = "theme" -> IF n = 1 THEN StrA ELSE QuotedText

DocKeys == {"SIEM_Alert", "items", "alert_sources", "theme"}

\* every document with each of the keys absent or holding one of its values
LoadDocs ==
    {[k \in {x \in DocKeys : c[x] > 0} |-> DocEntry(k, c[k])] : c \in [DocKeys -> 0..2]}

\* the keys of the defaults, as a JSON list and inside a JSON string
AllDefaultKeys ==
    <<"SIEM_Alert", "Login_Alert", "Smart_Fence_Alert", "Location_Based_Alert",
      "Motion_Sensor_Alert", "IR_Sensor_Alert", "sensor_types", "items">>

RECURSIVE Joined(_)
Joined(keys) ==
    IF keys = <<>> THEN <<>> ELSE KeyText(Head(keys)) \o <<" ">> \o Joined(Tail(keys))

LoadFiles ==
    {FileOf(d) : d \in LoadDocs}
    \cup {NoFile, CorruptFile, UndecodableFile, UnreadableFile, ScalarFile}
    \cup {ListFile(<<>>), ListFile(<<"SIEM_Alert", "items">>), ListFile(AllDefaultKeys),
          ListFile(AllDefaultKeys \o <<"theme">>)}
    \cup {StrFile(<<>>), StrFile(<<"a", "b", "c">>), StrFile(Joined(AllDefaultKeys))}

\* ConfigManager(config_file) on the file f
InitLoad ==
    \E f \in LoadFiles :
        /\ disk = f
        /\ config = LoadedValue(f)
        /\ alert_sources = EmptyMap
        /\ aliased = {}
        /\ links = EmptyMap
        /\ crc_api_base_url = NoBaseUrl
        /\ last = Result("load_config", "", ~TryLoad(f, load_default_config).raised,
                         TryLoad(f, load_default_config).exc, [file |-> f])
        /\ history = Untracked

\* ConfigManager(config_file) again, on the file as it is now: a new object
\* with no registry (lines 31-34), whatever was constructed before it; ok
\* and err tell how the try block ended
LoadConfig ==
    /\ config' = LoadedValue(disk)
    /\ alert_sources' = EmptyMap
    /\ aliased' = {}
    /\ links' = EmptyMap
    /\ last' = Result("load_config", "", ~TryLoad(disk, load_default_config).raised,
                      TryLoad(disk, load_default_config).exc, [file |-> disk])
    /\ UNCHANGED <<disk, crc_api_base_url, history>>

\* ConfigManager.save_config() right after the load; open(..., "w") fails
\* on the path that cannot be opened, which is logged
SaveConfig ==
    /\ last.op = "load_config"
    /\ disk' = IF disk.kind = "unreadable" THEN disk ELSE Written(config)
    /\ last' = Result("save_config", "ConfigManager", TRUE, "none",
                      [loaded |-> config, migrated |-> FALSE])
    /\ UNCHANGED <<config, alert_sources, aliased, links, crc_api_base_url, history>>

\* CRCSimulator(config_file=...) on the file as it is now: on a config that
\* is no dict line 90 raises AttributeError
ConstructSimulator ==
    IF LoadedValue(disk).type = "dict"
    THEN /\ config' = DictValue(IF Construct(disk).migrated
                             THEN ("alert_sources" :> Construct(disk).alert_sources)
                                      @@ Construct(disk).config
                             ELSE load_config(disk))
         /\ alert_sources' = Construct(disk).alert_sources
         /\ aliased' = Construct(disk).aliased
         /\ disk' = Construct(disk).disk
         /\ links' = EmptyMap
         /\ last' = Result("construct", "", TRUE, "none",
                           [file |-> disk, migrated |-> Construct(disk).migrated])
         /\ UNCHANGED <<crc_api_base_url, history>>
    ELSE /\ config' = LoadedValue(disk)
         /\ alert_sources' = EmptyMap
         /\ aliased' = {}
         /\ links' = EmptyMap
         /\ last' = Result("construct", "", FALSE, "raised",
                           [file |-> disk, migrated |-> FALSE])
         /\ UNCHANGED <<disk, crc_api_base_url, history>>

\* CRCSimulator.save_config() right after the construction
SimulatorSave ==
    /\ last.op = "construct"
    /\ last.ok
    /\ config' = DictValue(("alert_sources" :> alert_sources) @@ config.dict)
    /\ disk' = IF disk.kind = "unreadable" THEN disk
               ELSE Written(DictValue(("alert_sources" :> alert_sources) @@ config.dict))
    /\ last' = Result("save_config", "CRCSimulator", TRUE, "none",
                      [loaded |-> LoadedValue(last.arg.file),
                       migrated |-> last.arg.migrated])
    /\ UNCHANGED <<alert_sources, aliased, links, crc_api_base_url, history>>

\* ConfigManager.set(key, value), line 80: self.config[key] = value, which
\* raises TypeError on a config that is a list or a str
set(value, key, v) ==
    IF value.type = "dict"
    THEN Returned(DictValue((key :> v) @@ value.dict))
    ELSE [raised |-> TRUE, exc |-> "TypeError", value |-> value]

\* ConfigManager.set(key, value) on the ConfigManager alone: the key is set
\* and save_config (line 81) writes the file, unless the path cannot be
\* opened
SetConfig(key, v) ==
    /\ last.op \in {"load_config", "set"}
         \/ (last.op = "save_config" /\ last.name = "ConfigManager")
    /\ config' = set(config, key, v).value
    /\ disk' = IF set(config, key, v).raised \/ disk.kind = "unreadable" THEN disk
               ELSE Written(set(config, key, v).value)
    /\ last' = Result("set", key, ~set(config, key, v).raised, set(config, key, v).exc,
                      [value |-> v])
    /\ UNCHANGED <<alert_sources, aliased, links, crc_api_base_url, history>>

NextLoad ==
    \/ LoadConfig
    \/ SaveConfig
    \/ ConstructSimulator
    \/ SimulatorSave
    \/ \E v \in {StrA, StrB} : SetConfig("theme", v)
    \/ SetConfig("items", "SIEM_Alert" :> <<>>)

SpecLoad == InitLoad /\ [][NextLoad]_vars

(***************************************************************************)
(* One call of simulate_event, statement by statement: the detail routine, *)
(* the envelope of send_event, the keep/discard questions of send_event,   *)
(* cleanup_simulation_items.  last.op tells where the call is; the call    *)
(* has returned or raised when it is "simulate_event".                     *)
(***************************************************************************)
InCall == last.op \in {"details", "emit", "decide"}

\* the objects after the detail routine left the items of the source as
\* d.items
AfterDetails(mem, event_type, d) ==
    InPlace(mem, event_type, d.items, IdMap(Len(mem.sources[event_type].items)))

\* lines 451-467: the dispatch and the detail routine.  An unknown type
\* returns, a routine that raises ends the call; otherwise the event data
\* are at hand
SimDetails(event_type, in) ==
    /\ ~InCall
    /\ IF event_type \notin ValidEventTypes
       THEN /\ Becomes(Mem, FALSE)
            /\ last' = Result("simulate_event", event_type, TRUE, "unknown event type",
                              [in |-> in])
       ELSE IF event_type \notin DOMAIN alert_sources
       THEN /\ Becomes(Mem, FALSE)
            /\ last' = Result("simulate_event", event_type, FALSE, "raised", [in |-> in])
       ELSE /\ Len(Details(event_type, alert_sources[event_type], in).items) <= MaxSimItems
            /\ IdsBelowBound(ExistingIds(alert_sources[event_type].items,
                                         AutoIdPrefix(event_type)), MaxSimIdNum)
            /\ Becomes(AfterDetails(Mem, event_type,
                                    Details(event_type, alert_sources[event_type], in)),
                       FALSE)
            /\ last' = IF Details(event_type, alert_sources[event_type], in).ok
                       THEN Result("details", event_type, TRUE, "none",
                                   [in |-> in,
                                    event_data |->
                                        EventData(event_type, alert_sources[event_type],
                                                  Details(event_type,
                                                          alert_sources[event_type], in),
                                                  in)])
                       ELSE Result("simulate_event", event_type, FALSE, "raised",
                                   [in |-> in])
    /\ UNCHANGED history

\* send_event, lines 474-494: the envelope is built and printed
SimEmit ==
    /\ last.op = "details"
    /\ Becomes(Mem, FALSE)
    /\ last' = Result("emit", last.name, TRUE, "none",
                      [envelope |-> Envelope(crc_api_base_url, last.name,
                                             last.arg.event_data)])
    /\ UNCHANGED history

\* send_event, lines 495-506: one answer for each auto-generated item of
\* the source, then save_config
SimDecide(answers) ==
    /\ last.op = "emit"
    /\ Becomes(InPlace(Mem, last.name,
                       Decided(alert_sources[last.name].items, answers),
                       IdMap(Len(alert_sources[last.name].items))),
               TRUE)
    /\ last' = Result("decide", last.name, TRUE, "none", [asked |-> Len(answers)])
    /\ UNCHANGED history

\* line 470: cleanup_simulation_items, and the call returns
SimCleanup ==
    /\ last.op = "decide"
    /\ Becomes(cleanup_simulation_items(Mem), TRUE)
    /\ last' = Result("simulate_event", last.name, TRUE, "none", [returned |-> TRUE])
    /\ UNCHANGED history

NextSteps ==
    \/ \E event_type \in OrchEventTypes :
         \E in \in OrchInputs(event_type) : SimDetails(event_type, in)
    \/ SimEmit
    \/ \E answers \in [1..(IF last.op = "emit"
                            THEN Cardinality(AutoGenerated(alert_sources[last.name].items))
                            ELSE 0) -> AnswerValues] :
         SimDecide(answers)
    \/ SimCleanup
    \/ \E name \in OrchNames : ~InCall /\ RemoveAlertSource(name)
    \/ \E name \in OrchNames : ~InCall /\ AddAlertSource(name, <<"location">>)

SpecSteps == InitOrch /\ [][NextSteps]_vars

(***************************************************************************)
(* Sources are added by a call of add_alert_source and through the menu    *)
(* of manage_alert_sources, and removed.                                   *)
(***************************************************************************)
\* field lists given to add_alert_source
GivenFieldLists == {<<>>, <<"val">>, <<"val", "num">>}

\* names given to add_alert_source and remove_alert_source
GivenNames == {"Demo", "TestAlert"}

\* lines typed at "Enter new alert source name: "
TypedNameLines == {<<>>, <<" ">> \o Chars("Demo"), Chars("TestAlert"), Chars("SIEM_Alert")}

\* lines typed at "Enter field names (comma separated): "
TypedFieldLines ==
    {<<>>, <<" ", ",", " ">>, FieldChars("val"),
     FieldChars("num") \o <<",", " ">> \o FieldChars("val") \o <<",">>}

InitSources ==
    /\ config = Construct(FileOf(MotionDoc)).config
    /\ alert_sources = Construct(FileOf(MotionDoc)).alert_sources
    /\ aliased = {}
    /\ links = EmptyMap
    /\ disk = FileOf(MotionDoc)
    /\ crc_api_base_url = NoBaseUrl
    /\ last = Result("construct", "", TRUE, "none",
                     [file |-> FileOf(MotionDoc), migrated |-> FALSE])
    /\ history = Untracked

\* choice 2 of manage_alert_sources with the two lines typed
MenuAddSource(name, fields) ==
    LET r == manage_add_source(alert_sources, name, fields) IN
    /\ alert_sources' = r.sources
    /\ disk' = IF r.ok /\ disk.kind # "unreadable"
               THEN SavedFile(config, r.sources) ELSE disk
    /\ last' = Result("manage_alert_sources", "", r.ok, r.err,
                      [name |-> name, fields |-> fields])
    /\ UNCHANGED <<config, aliased, links, crc_api_base_url, history>>

NextSources ==
    \/ \E name \in GivenNames, fields \in GivenFieldLists : AddAlertSource(name, fields)
    \/ \E name \in TypedNameLines, fields \in TypedFieldLines : MenuAddSource(name, fields)
    \/ \E name \in GivenNames : RemoveAlertSource(name)

SpecSources == InitSources /\ [][NextSources]_vars

(***************************************************************************)
(* The settings menu on the document with three sources; the operator      *)
(* picks the one with a setting of its own, by number or by name, or       *)
(* picks none.                                                             *)
(***************************************************************************)
\* list_alert_sources() on OrchDoc
OrchOrder == <<"Motion_Sensor_Alert", "SIEM_Alert", "Demo">>

TypedChoices ==
    {<<" ", "2">>, <<"4">>, <<"0", "_", "2">>, Chars("SIEM_Alert"),
     Chars("TestAlert"), <<"B", "a", "c", "k">>}

TypedActions == {<<"a">>, <<"E">>, <<" ", "d">>, <<"x">>, <<" ", "B">>}

TypedKeys ==
    {<<"u", "n", "i", "t">>, <<" ">> \o SettingKeyChars("default_severity") \o <<" ">>,
     <<" ">>}

TypedValues == {StrA, <<" ", "B", " ">>}

InitSettings ==
    /\ config = Construct(FileOf(OrchDoc)).config
    /\ alert_sources = Construct(FileOf(OrchDoc)).alert_sources
    /\ aliased = {}
    /\ links = EmptyMap
    /\ disk = FileOf(OrchDoc)
    /\ crc_api_base_url = NoBaseUrl
    /\ last = Result("construct", "", TRUE, "none",
                     [file |-> FileOf(OrchDoc), migrated |-> FALSE])
    /\ history = Untracked

\* the state after the menu came back with r
SettingsBecome(r, arg) ==
    /\ alert_sources' = r.sources
    /\ disk' = IF r.saved /\ disk.kind # "unreadable"
               THEN SavedFile(config, r.sources) ELSE disk
    /\ last' = Result("manage_settings", r.selected, r.ok, r.err, arg)

ManageSettings(choice, action, key, value) ==
    /\ SettingsBecome(manage_settings(alert_sources, OrchOrder, choice, action, key, value),
                      [choice |-> choice, action |-> action, key |-> key, value |-> value])
    /\ UNCHANGED <<config, aliased, links, crc_api_base_url, history>>

NextSettings ==
    \E choice \in TypedChoices, action \in TypedActions, key \in TypedKeys,
       value \in TypedValues :
        ManageSettings(choice, action, key, value)

SpecSettings == InitSettings /\ [][NextSettings]_vars

(***************************************************************************)
(* The item operations on a source with two fields and a threshold on      *)
(* each, with the typed lines kept in the outcome of the call.             *)
(***************************************************************************)
InitItems ==
    /\ config = Construct(FileOf(CanonicalDoc)).config
    /\ alert_sources = Construct(FileOf(CanonicalDoc)).alert_sources
    /\ aliased = {}
    /\ links = EmptyMap
    /\ disk = FileOf(CanonicalDoc)
    /\ last = Result("construct", "", TRUE, "none",
                     [file |-> FileOf(CanonicalDoc), migrated |-> FALSE])
    /\ history = Untracked
    /\ crc_api_base_url = NoBaseUrl

TypedAddItem(source, raw) ==
    AddItemRecorded(source, raw, MaxSimItems, MaxSimIdNum, raw)

TypedEditItem(source, idx, raw) ==
    /\ source \in DOMAIN alert_sources
    /\ ItemsChanged("edit_item_in_source", source,
                    edit_item_in_source(alert_sources, source, idx, raw),
                    [idx |-> idx, raw |-> raw], {},
                    IdMap(Len(alert_sources[source].items)))

NextItems ==
    \/ \E source \in ItemSources :
         \E raw \in InputVectors(Len(alert_sources[source].fields)) :
            TypedAddItem(source, raw)
    \/ \E source \in ItemSources, idx \in 1..MaxSimItems :
         \E raw \in InputVectors(Len(alert_sources[source].fields)) :
            TypedEditItem(source, idx, raw)
    \/ \E source \in ItemSources, idx \in 1..MaxSimItems :
         RemoveItem(source, idx)

SpecItems == InitItems /\ [][NextItems]_vars

\* The same item operations on the operator-defined source whose name has
\* a dash among its first three characters, without items at first.
DashItemSources == {"a-1"}

NextDashItems ==
    \/ \E source \in DashItemSources :
         \E raw \in InputVectors(Len(alert_sources[source].fields)) :
            TypedAddItem(source, raw)
    \/ \E source \in DashItemSources, idx \in 1..MaxSimItems :
         \E raw \in InputVectors(Len(alert_sources[source].fields)) :
            TypedEditItem(source, idx, raw)
    \/ \E source \in DashItemSources, idx \in 1..MaxSimItems :
         RemoveItem(source, idx)

SpecDashItems == InitDash /\ [][NextDashItems]_vars

(***************************************************************************)
(* validate_field_value as a unit, the way the tests call it: a simulator  *)
(* whose registry holds the source TestAlert with one field, num, and one  *)
(* threshold (or none) on it; the call is given any raw value.             *)
(***************************************************************************)
\* characters of the raw values
InputAlphabet == {"0", "1", "5", "-", "+", ".", "a", "A", " "}

\* raw values with an exponent, with "_" between digits, and the names of
\* the values that are no finite number
SpelledNumbers ==
    {<<"1", "e", "1">>, <<"5", "E", "0">>, <<"1", "e", "-", "1">>,
     <<".", "5", "e", "1">>, <<"1", "e", "4", "0", "0">>,
     <<"-", "1", "e", "-", "4", "0", "0">>,
     <<"1", "_", "0">>, <<"1", "_", "_", "0">>, <<"_", "1">>,
     <<"n", "a", "n">>, <<"N", "a", "N">>, <<"i", "n", "f">>,
     <<"-", "i", "n", "f">>, <<"I", "n", "f", "i", "n", "i", "t", "y">>}

\* str({"min": 1}) and str({"max": 10}) as Python prints them
StrMinOnly == <<"{", "'", "m", "i", "n", "'", ":", " ", "1", "}">>
StrMaxOnly == <<"{", "'", "m", "a", "x", "'", ":", " ", "1", "0", "}">>

RawValues ==
    UNION {[1..n -> InputAlphabet] : n \in 0..MaxLen}
    \cup {<<"a", "b", "c">>, <<"0", "5">>, <<"1", "1">>, StrMinOnly, StrMaxOnly}
    \cup SpelledNumbers

Str10 == <<"1", "0">>

TestThresholds ==
    {RangeT(1, 10), RangeT(-1, 0), RangeT(5, 5), RangeT(10, 1),
     ListT(<<StrA, StrB>>), ListT(<<>>), ListT(<<<<"a">>, Str10, <<>>>>),
     IntT(5), IntT(10), IntT(-1), IntT(0),
     StrT(StrA), StrT(<<"0", "5">>), StrT(<<>>),
     DictT("min" :> 1), DictT("max" :> 10)}

TestThresholdMaps == {EmptyMap} \cup {"num" :> th : th \in TestThresholds}

TestSource(thresholds) ==
    [fields |-> <<"num">>, thresholds |-> thresholds,
     settings |-> EmptyMap, items |-> <<>>]

\* The simulator is constructed without a config file (sim = CRCSimulator()
\* in a directory without config.json), which leaves the six default
\* sources in the registry and in the file; the test then puts TestAlert
\* into the registry in memory, and a call
\* validate_field_value("TestAlert", "num", value) is about to be made.
InitValidate ==
    \E thresholds \in TestThresholdMaps, value \in RawValues :
        LET c == Construct(NoFile) IN
        /\ config = c.config
        /\ alert_sources = ("TestAlert" :> TestSource(thresholds)) @@ c.alert_sources
        /\ aliased = c.aliased
        /\ links = EmptyMap
        /\ disk = c.disk
        /\ last = Result("call", "TestAlert", TRUE, "none",
                         [field |-> "num", value |-> value])
        /\ history = Untracked
        /\ crc_api_base_url = NoBaseUrl

\* sim.validate_field_value(alert_source, field, value) returns or raises
Validate ==
    /\ last.op = "call"
    /\ LET r == validate_field_value(last.name, last.arg.field, last.arg.value) IN
       last' = Result("validate_field_value", last.name, r.ok, r.err, last.arg)
    /\ UNCHANGED <<disk, config, alert_sources, aliased, links, crc_api_base_url, history>>

NextValidate == Validate

SpecValidate == InitValidate /\ [][NextValidate]_vars

(***************************************************************************)
(* Properties                                                              *)
(***************************************************************************)
HasSources(file) ==
    /\ file.kind = "doc"
    /\ "alert_sources" \in DOMAIN file.doc
    /\ DOMAIN file.doc["alert_sources"] # {}

\* C1: write-through.  After every mutating registry operation has returned,
\* whether it succeeded or was aborted by an error, the alert_sources stored
\* in the config file equal the alert_sources in memory.
C1_WriteThrough ==
    /\ disk.kind = "doc"
    /\ "alert_sources" \in DOMAIN disk.doc
    /\ disk.doc["alert_sources"] = alert_sources

\* C2: add_alert_source(name, fields) with a name that is not registered
\* succeeds; the name is then registered with the given fields and empty
\* thresholds, settings and items, and a simulator newly constructed from
\* the same config file lists it too.
C2_AddedSourceListed ==
    [][(last'.op = "add_alert_source" /\ last'.name \notin DOMAIN alert_sources)
        => /\ last'.ok
           /\ last'.name \in DOMAIN alert_sources'
           /\ alert_sources'[last'.name].fields = last'.arg
           /\ alert_sources'[last'.name].thresholds = EmptyMap
           /\ alert_sources'[last'.name].settings = EmptyMap
           /\ alert_sources'[last'.name].items = <<>>
           /\ last'.name \in DOMAIN Construct(disk').alert_sources]_vars

C2_Witness ==
    /\ last.op = "add_alert_source"
    /\ last.ok
    /\ last.name = "Demo"
    /\ last.arg = <<"val", "num">>

\* C3: add_alert_source with a name that is already registered raises the
\* "already exists" error and leaves the registry, in memory and on disk,
\* exactly as it was.
C3_DuplicateAddRejected ==
    [][(last'.op = "add_alert_source" /\ last'.name \in DOMAIN alert_sources)
        => /\ ~last'.ok
           /\ last'.err = "already exists"
           /\ alert_sources' = alert_sources
           /\ disk' = disk]_vars

C3_Witness ==
    /\ last.op = "add_alert_source"
    /\ ~last.ok
    /\ alert_sources[last.name].items # <<>>

\* C4: remove_alert_source(name) raises "not found" and changes nothing when
\* name is not registered; otherwise it deletes exactly that source (with its
\* items) and leaves every other source unchanged.
C4_RemoveExactlyOne ==
    [][last'.op = "remove_alert_source"
        => IF last'.name \notin DOMAIN alert_sources
           THEN /\ ~last'.ok
                /\ last'.err = "not found"
                /\ alert_sources' = alert_sources
                /\ disk' = disk
           ELSE /\ last'.ok
                /\ DOMAIN alert_sources' = DOMAIN alert_sources \ {last'.name}
                /\ \A k \in DOMAIN alert_sources' :
                      alert_sources'[k] = alert_sources[k]]_vars

C4_Witness ==
    /\ last.op = "remove_alert_source"
    /\ last.ok
    /\ last.name = "SIEM_Alert"
    /\ "Demo" \in DOMAIN alert_sources
    /\ alert_sources["Demo"].items # <<>>

\* C5: a removal is persistent.  Once remove_alert_source(name) has returned,
\* a simulator newly constructed from the same config file does not list
\* name, also when name was the last remaining source or a well-known type.
C5_RemovalSurvivesReload ==
    (last.op = "remove_alert_source" /\ last.ok)
        => last.name \notin DOMAIN Construct(disk).alert_sources

\* C6: constructing a simulator on a document whose alert_sources mapping is
\* non-empty performs no migration: the registry is the document's
\* alert_sources, the file is not rewritten, and constructing again on the
\* same file gives the same registry.
C6_NoMigrationWhenSourcesPresent ==
    (last.op = "construct" /\ HasSources(last.arg.file))
        => /\ ~last.arg.migrated
           /\ alert_sources = last.arg.file.doc["alert_sources"]
           /\ disk = last.arg.file
           /\ Construct(disk).alert_sources = alert_sources

C6_Witness ==
    /\ last.op = "construct"
    /\ HasSources(last.arg.file)
    /\ "items" \in DOMAIN last.arg.file.doc
    /\ "SIEM_Alert" \in DOMAIN last.arg.file.doc
    /\ "Motion_Sensor_Alert" \notin DOMAIN alert_sources

\* C7: when alert_sources is absent or empty at construction, the registry
\* afterwards holds exactly the six well-known types, each with its default
\* field list, the old top-level items of the type (else none), the old
\* per-type thresholds mapping (else none) and, as settings, every other
\* per-type key except fields and items; and the file holds that registry.
C7_MigrationResult ==
    (last.op = "construct" /\ ~HasSources(last.arg.file))
        => LET cfg == load_config(last.arg.file) IN
           /\ last.arg.migrated
           /\ DOMAIN alert_sources = ValidEventTypes
           /\ \A k \in ValidEventTypes :
                LET src == alert_sources[k]
                    old == IF k \in DOMAIN cfg THEN cfg[k] ELSE EmptyMap
                IN  /\ src.fields = default_fields[k]
                    /\ src.items = IF k \in DOMAIN cfg["items"]
                                   THEN cfg["items"][k] ELSE <<>>
                    /\ src.thresholds = IF "thresholds" \in DOMAIN old
                                        THEN old["thresholds"] ELSE EmptyMap
                    /\ DOMAIN src.settings =
                          DOMAIN old \ {"thresholds", "fields", "items"}
                    /\ \A key \in DOMAIN src.settings : src.settings[key] = old[key]
           /\ disk.kind = "doc"
           /\ "alert_sources" \in DOMAIN disk.doc
           /\ disk.doc["alert_sources"] = alert_sources

C7_Witness ==
    /\ last.op = "construct"
    /\ last.arg.migrated
    /\ alert_sources["Motion_Sensor_Alert"].items # <<>>
    /\ alert_sources["Motion_Sensor_Alert"].thresholds # EmptyMap
    /\ alert_sources["Motion_Sensor_Alert"].settings = ("default_status" :> Clear)

\* the threshold on the field that a validate_field_value call was given
CalledThresholds == alert_sources[last.name].thresholds
Validated == last.op = "validate_field_value"
HasThreshold == last.arg.field \in DOMAIN CalledThresholds
CalledThreshold == CalledThresholds[last.arg.field]

\* C8: with a threshold {min, max}, validate_field_value accepts a raw value
\* iff it parses as a number n with min <= n <= max, both bounds inclusive;
\* a value that is no number and a value out of bounds are rejected.
C8_RangeValidation ==
    (Validated /\ HasThreshold /\ CalledThreshold.kind = "dict"
       /\ {"min", "max"} \subseteq DOMAIN CalledThreshold.dict)
        => LET mn == CalledThreshold.dict["min"]
               mx == CalledThreshold.dict["max"]
               v == last.arg.value
               n == PyFloat(v)
           IN  /\ last.ok <=> /\ n.ok
                               /\ CompareToInt(n, mn) \in {"eq", "gt"}
                               /\ CompareToInt(n, mx) \in {"lt", "eq"}
               /\ ~n.ok => last.err = "must be a number"
               /\ (n.ok /\ ~last.ok) => last.err = "must be between"
               /\ (mn = 1 /\ mx = 10) =>
                    /\ v \in {<<"1">>, <<"5">>, <<"1", "0">>} => last.ok
                    /\ v \in {<<"0">>, <<"1", "1">>, <<"a", "b", "c">>} => ~last.ok

C8_Witness ==
    /\ Validated
    /\ HasThreshold
    /\ CalledThreshold = RangeT(1, 10)
    /\ last.arg.value = <<"1", "0">>
    /\ last.ok

\* C9: with a list threshold, validate_field_value accepts a raw value iff it
\* equals one member of the list exactly (case-sensitive, no trimming).
C9_ListValidation ==
    (Validated /\ HasThreshold /\ CalledThreshold.kind = "list")
        => LET allowed == CalledThreshold.list
               v == last.arg.value
           IN  /\ last.ok <=> (\E i \in 1..Len(allowed) : allowed[i] = v)
               /\ ~last.ok => last.err = "must be one of"
               /\ allowed = <<<<"A">>, <<"B">>>> =>
                    /\ v = <<"A">> => last.ok
                    /\ v \in {<<"a">>, <<" ", "A">>, <<"A", " ">>, <<>>} => ~last.ok

C9_Witness ==
    /\ Validated
    /\ HasThreshold
    /\ CalledThreshold = ListT(<<<<"A">>, <<"B">>>>)
    /\ last.arg.value = <<"A", " ">>
    /\ ~last.ok

\* C10: with a single scalar as threshold, validate_field_value accepts a raw
\* value iff it equals the string form of the scalar.
C10_ExactValidation ==
    (Validated /\ HasThreshold /\ CalledThreshold.kind \in {"int", "str"})
        => LET th == CalledThreshold
               form == IF th.kind = "int" THEN IntToStr(th.int) ELSE th.str
               v == last.arg.value
           IN  /\ last.ok <=> (v = form)
               /\ ~last.ok => last.err = "must be exactly"
               /\ (th.kind = "int" /\ th.int = 5) =>
                    /\ v = <<"5">> => last.ok
                    /\ v \in {<<"0", "5">>, <<" ", "5">>, <<"5", ".", "0">>} => ~last.ok
               /\ (th.kind = "int" /\ th.int = -1) => (last.ok <=> v = <<"-", "1">>)

C10_Witness ==
    /\ Validated
    /\ HasThreshold
    /\ CalledThreshold = IntT(5)
    /\ last.arg.value = <<"0", "5">>
    /\ ~last.ok

\* C11: with no threshold on the field, validate_field_value accepts every
\* non-empty raw value (whitespace included) and rejects the empty one with
\* "cannot be empty"; the call leaves the registry, the config and the file
\* as they were.
C11_FallbackValidation ==
    [][(last'.op = "validate_field_value")
         => /\ alert_sources' = alert_sources
            /\ config' = config
            /\ disk' = disk
            /\ (last.arg.field \notin DOMAIN alert_sources[last.name].thresholds)
                  => /\ last'.ok <=> (last.arg.value # <<>>)
                     /\ ~last'.ok => last'.err = "cannot be empty"]_vars

C11_Witness ==
    /\ Validated
    /\ ~HasThreshold
    /\ last.arg.value = <<" ">>
    /\ last.ok

\* C12: within one session an item id once given to an item of a source is
\* never given to another item of that source, also after the item that
\* held it was removed or discarded.
C12_NoIdReuse ==
    [][history'.given \cap history.allocated = {}]_vars

\* what follows the prefix and the dash in an id
AfterPrefix(id, prefix) == SubSeq(id, Len(prefix) + 2, Len(id))

\* the numbers NNN of the ids PREFIX-NNN among the items: the number is
\* what stands after PREFIX and the dash, whatever PREFIX holds
NumbersWithPrefix(items, prefix) ==
    {DigitsVal(AfterPrefix(items[i]["id"], prefix)) :
        i \in {j \in 1..Len(items) :
                  /\ StartsWith(items[j]["id"], prefix \o <<"-">>)
                  /\ AfterPrefix(items[j]["id"], prefix) # <<>>
                  /\ AllDigits(AfterPrefix(items[j]["id"], prefix))}}

\* id is prefix, a dash and the three digits of n
IsIdNumbered(id, prefix, n) ==
    /\ Len(id) = Len(prefix) + 4
    /\ SubSeq(id, 1, Len(prefix) + 1) = prefix \o <<"-">>
    /\ \A i \in (Len(prefix) + 2)..Len(id) : IsDigit(id[i])
    /\ DigitsVal(SubSeq(id, Len(prefix) + 2, Len(id))) = n

\* id is the next id after those of the items: 001 when no id has the
\* prefix, else one more than the largest number in use
IsNextId(id, prefix, items) ==
    \E n \in 1..999 :
        /\ IsIdNumbered(id, prefix, n)
        /\ \A m \in NumbersWithPrefix(items, prefix) : m < n
        /\ n = 1 \/ (n - 1) \in NumbersWithPrefix(items, prefix)

\* C13: the id given to an item added to a source, by add_item_to_source or
\* by the motion routine, is PREFIX-NNN with NNN one more than the largest
\* number among the ids of the source that start with PREFIX, in three
\* digits, and 001 when there is none; gaps in the numbering stay.
C13_IdAllocation ==
    [][/\ \A g \in history'.given :
             IsNextId(g[2], ItemIdPrefix(g[1]), alert_sources[g[1]].items)
       /\ (last'.op = "add_item_to_source" /\ last'.ok)
             => IsNextId(alert_sources'[last'.name].items[
                             Len(alert_sources'[last'.name].items)]["id"],
                         ItemIdPrefix(last'.name),
                         alert_sources[last'.name].items)]_vars

\* an add to the items MOT-001 and MOT-003 gave MOT-004
C13_Witness ==
    /\ last.op = "add_item_to_source"
    /\ last.ok
    /\ history.given = {<<"Motion_Sensor_Alert", <<"M", "O", "T", "-", "0", "0", "4">> >>}
    /\ [i \in 1..Len(alert_sources["Motion_Sensor_Alert"].items) |->
            alert_sources["Motion_Sensor_Alert"].items[i]["id"]]
         = <<IdMOT001, IdMOT003, <<"M", "O", "T", "-", "0", "0", "4">> >>

\* C14: every item of a source S, added explicitly or created by the motion
\* or the IR routine, has an id PREFIX-NNN where PREFIX is the first three
\* characters of the name of S in upper case.
C14_IdPrefixFormat ==
    \A source \in DOMAIN alert_sources :
        \A i \in 1..Len(alert_sources[source].items) :
            \E n \in 1..999 :
                IsIdNumbered(alert_sources[source].items[i]["id"],
                             ItemIdPrefix(source), n)

\* C15: the ids of the items of any one source are pairwise distinct, after
\* any sequence of item additions, auto-creations, removals, simulated
\* events and cleanups from sources without items.
C15_IdsDistinct ==
    \A source \in DOMAIN alert_sources :
        \A i, j \in 1..Len(alert_sources[source].items) :
            i # j => alert_sources[source].items[i]["id"]
                        # alert_sources[source].items[j]["id"]

\* every typed line passes the validation of its field
AllTypedValid(src, raw) ==
    \A i \in 1..Len(src.fields) :
        ValidateAgainst(src.thresholds, src.fields[i], Strip(raw[i])).ok

\* item is an item of the fields of src with the typed values and an id
\* of the prefix that no item of src has
IsItemAdded(item, src, raw, prefix) ==
    /\ DOMAIN item = {"id"} \cup {src.fields[i] : i \in 1..Len(src.fields)}
    /\ \A i \in 1..Len(src.fields) : item[src.fields[i]] = Strip(raw[i])
    /\ \A j \in 1..Len(src.items) : src.items[j]["id"] # item["id"]
    /\ \E n \in 1..999 : IsIdNumbered(item["id"], prefix, n)

\* C16: add_item_to_source validates the typed value of every field; where
\* one fails, the item list, the rest of the registry, the config and the
\* file stay as they were; where all pass, exactly one item is appended at
\* the end of the list, with a new id and one key per field, and saved.
C16_AddAllOrNothing ==
    [][(last'.op = "add_item_to_source")
        => IF AllTypedValid(alert_sources[last'.name], last'.arg)
           THEN /\ last'.ok
                /\ Len(alert_sources'[last'.name].items)
                      = Len(alert_sources[last'.name].items) + 1
                /\ SubSeq(alert_sources'[last'.name].items, 1,
                          Len(alert_sources[last'.name].items))
                      = alert_sources[last'.name].items
                /\ IsItemAdded(alert_sources'[last'.name].items[
                                   Len(alert_sources'[last'.name].items)],
                               alert_sources[last'.name], last'.arg,
                               ItemIdPrefix(last'.name))
                /\ alert_sources' = [alert_sources EXCEPT ![last'.name].items =
                                        alert_sources'[last'.name].items]
                /\ config' = config
                /\ disk' = SavedFile(config', alert_sources')
           ELSE /\ ~last'.ok
                /\ alert_sources' = alert_sources
                /\ config' = config
                /\ disk' = disk]_vars

\* an add whose second value failed, after the first had passed
C16_WitnessRejected ==
    /\ last.op = "add_item_to_source"
    /\ ~last.ok
    /\ last.arg = <<StrA, StrA>>
    /\ last.err = "must be a number"
    /\ Len(alert_sources["Demo"].items) = 2

\* an add that went through, to a list that held two items
C16_Witness ==
    /\ last.op = "add_item_to_source"
    /\ last.ok
    /\ Len(alert_sources["Demo"].items) = 3
    /\ last.arg = <<StrA, <<" ", "5">> >>
    /\ alert_sources["Demo"].items[3]["val"] = StrA
    /\ alert_sources["Demo"].items[3]["num"] = Str5

\* C17: an edit that is aborted by a validation error leaves the item as it
\* was before the edit began, the fields entered before the failing one
\* included.
C17_AbortedEditChangesNothing ==
    [][(last'.op = "edit_item_in_source" /\ ~last'.ok)
        => alert_sources' = alert_sources]_vars

SensorEventTypes == {"Motion_Sensor_Alert", "IR_Sensor_Alert"}

\* a simulate_event of a sensor type has returned
SensorSimulated == last.op = "simulate_event" /\ last.name \in SensorEventTypes /\ last.ok

\* the positions of the items with the location
AtLocation(items, location) ==
    {i \in 1..Len(items) :
        "location" \in DOMAIN items[i] /\ items[i]["location"] = location}

\* the ids of the items
ItemIds(items) == {items[i]["id"] : i \in 1..Len(items)}

\* the positions of the items flagged auto_generated
FlaggedAuto(items) ==
    {i \in 1..Len(items) :
        "auto_generated" \in DOMAIN items[i] /\ items[i]["auto_generated"] = PyTrue}

\* after is the item before, but for its value and the auto_generated flag
IsSameItem(before, after) ==
    /\ DOMAIN after \ {"value", "auto_generated"} = DOMAIN before \ {"value", "auto_generated"}
    /\ \A k \in DOMAIN before \ {"value", "auto_generated"} : after[k] = before[k]

\* the first item of old at the location is found: no item of new is new,
\* and the item found, where it is kept, has the status as its value
IsUpdatedInPlace(old, new, location, status) ==
    \E i \in AtLocation(old, location) :
        /\ \A j \in AtLocation(old, location) : i <= j
        /\ ItemIds(new) \subseteq ItemIds(old)
        /\ i \notin FlaggedAuto(old) => old[i]["id"] \in ItemIds(new)
        /\ \A j \in 1..Len(new) :
              new[j]["id"] = old[i]["id"]
                 => new[j]["value"] = status /\ IsSameItem(old[i], new[j])
        /\ \A j \in 1..Len(new), m \in 1..Len(old) :
              (m # i /\ new[j]["id"] = old[m]["id"])
                 => /\ IsSameItem(old[m], new[j])
                    /\ "value" \in DOMAIN old[m] => new[j]["value"] = old[m]["value"]

\* new holds exactly one item old has not, at its end, under a new id
IsAppended(old, new, location, status) ==
    /\ new # <<>>
    /\ ItemIds(new) \ ItemIds(old) = {new[Len(new)]["id"]}
    /\ \A j \in 1..(Len(new) - 1) : new[j]["id"] \in ItemIds(old)
    /\ new[Len(new)]["location"] = location
    /\ new[Len(new)]["value"] = status

\* C18: a run of the motion or the IR routine for a location that an item
\* of the source has finds that item: its value is updated in place and no
\* item is appended, so that the keep-or-discard questions are those of the
\* items flagged before.  A run for a location no item has appends exactly
\* one item, under a new id and flagged auto_generated, so that exactly one
\* more question is asked, the last one; answered with yes, the item stays
\* at the end of the list.
C18_AutoItemDedup ==
    [][(SensorSimulated')
        => IF AtLocation(alert_sources[last'.name].items,
                         SensorLocation(last'.arg.in)) # {}
           THEN /\ Len(last'.arg.answers)
                     = Cardinality(FlaggedAuto(alert_sources[last'.name].items))
                /\ IsUpdatedInPlace(
                      alert_sources[last'.name].items,
                      alert_sources'[last'.name].items,
                      SensorLocation(last'.arg.in),
                      SensorStatus(last'.arg.in, PossibleStatuses(last'.name),
                                   DefaultStatus(alert_sources[last'.name].settings)))
           ELSE /\ Len(last'.arg.answers)
                     = Cardinality(FlaggedAuto(alert_sources[last'.name].items)) + 1
                /\ IF SaidYes(last'.arg.answers[Len(last'.arg.answers)])
                   THEN IsAppended(
                          alert_sources[last'.name].items,
                          alert_sources'[last'.name].items,
                          SensorLocation(last'.arg.in),
                          SensorStatus(last'.arg.in, PossibleStatuses(last'.name),
                                       DefaultStatus(alert_sources[last'.name].settings)))
                   ELSE ItemIds(alert_sources'[last'.name].items)
                          \subseteq ItemIds(alert_sources[last'.name].items)]_vars

\* the second run for the location A found the item the first run had
\* created, and set its value to Clear
C18_Witness ==
    /\ SensorSimulated
    /\ last.name = "Motion_Sensor_Alert"
    /\ last.arg.answers = <<>>
    /\ last.arg.in.location = <<" ", "A">>
    /\ Len(alert_sources["Motion_Sensor_Alert"].items) = 1
    /\ alert_sources["Motion_Sensor_Alert"].items[1] =
          ("id" :> IdMOT001) @@ ("name" :> AutoNameLabel("Motion_Sensor_Alert") \o StrA) @@
          ("location" :> StrA) @@ ("value" :> Clear)

\* the number of answers that are no yes
Refusals(answers) == Cardinality({k \in 1..Len(answers) : ~SaidYes(answers[k])})

\* the item at position i of old: kept, it is in new without the flag;
\* discarded, no item of new has its id
IsDecided(old, new, i, answer) ==
    IF SaidYes(answer)
    THEN \E j \in 1..Len(new) :
            /\ new[j]["id"] = old[i]["id"]
            /\ "auto_generated" \notin DOMAIN new[j]
            /\ IsSameItem(old[i], new[j])
    ELSE old[i]["id"] \notin ItemIds(new)

\* C19: when simulate_event(T) has sent its event, every item of T flagged
\* auto_generated has got one decision, in list order: a kept item stays
\* in the list without the flag, a discarded one is gone; the items that
\* were not flagged stay; no item of T is flagged auto_generated or marked
\* for removal afterwards.
C19_KeepOrDiscard ==
    [][(last'.op = "simulate_event" /\ last'.ok /\ last'.err = "none")
        => /\ \A j \in 1..Len(alert_sources'[last'.name].items) :
                /\ ~Truthy(alert_sources'[last'.name].items[j], "auto_generated")
                /\ ~Truthy(alert_sources'[last'.name].items[j], "_remove_after_simulation")
           /\ Len(last'.arg.answers)
                >= Cardinality(FlaggedAuto(alert_sources[last'.name].items))
           /\ \A i \in FlaggedAuto(alert_sources[last'.name].items) :
                IsDecided(alert_sources[last'.name].items,
                          alert_sources'[last'.name].items, i,
                          last'.arg.answers[
                              Cardinality({m \in FlaggedAuto(alert_sources[last'.name].items) :
                                              m <= i})])
           /\ \A i \in 1..Len(alert_sources[last'.name].items) :
                i \notin FlaggedAuto(alert_sources[last'.name].items)
                    => alert_sources[last'.name].items[i]["id"]
                          \in ItemIds(alert_sources'[last'.name].items)
           /\ Len(alert_sources'[last'.name].items)
                = Len(alert_sources[last'.name].items)
                  + (Len(last'.arg.answers)
                       - Cardinality(FlaggedAuto(alert_sources[last'.name].items)))
                  - Refusals(last'.arg.answers)]_vars

\* the item left flagged was discarded and the item the run created was kept
C19_Witness ==
    /\ last.op = "simulate_event"
    /\ last.ok
    /\ last.name = "Motion_Sensor_Alert"
    /\ last.arg.answers = <<<<"n">>, <<" ", "Y">> >>
    /\ Len(alert_sources["Motion_Sensor_Alert"].items) = 2
    /\ alert_sources["Motion_Sensor_Alert"].items[1]["id"] = IdMOT001
    /\ alert_sources["Motion_Sensor_Alert"].items[2] =
          ("id" :> <<"M", "O", "T", "-", "0", "0", "4">>) @@
          ("name" :> AutoNameLabel("Motion_Sensor_Alert") \o Corridor1) @@
          ("location" :> Corridor1) @@ ("value" :> Clear)

\* the item is not marked for removal
IsUnmarked(item) ==
    ~("_remove_after_simulation" \in DOMAIN item
        /\ item["_remove_after_simulation"] = PyTrue)

\* after is before without the marked items of its item list
IsCleaned(before, after) ==
    /\ after.items = SelectSeq(before.items, IsUnmarked)
    /\ after.fields = before.fields
    /\ after.thresholds = before.thresholds
    /\ after.settings = before.settings

\* C20: cleanup_simulation_items, called on its own or at the end of
\* simulate_event, removes from every source (not only the source of the
\* event) every item marked _remove_after_simulation and leaves the other
\* items as they are and in their order; fields, thresholds and settings of
\* the sources stay.
C20_CleanupGlobalExact ==
    [][((last'.op = "cleanup_simulation_items")
          \/ (last'.op = "simulate_event" /\ last'.ok /\ last'.err = "none"))
        => /\ DOMAIN alert_sources' = DOMAIN alert_sources
           /\ \A k \in DOMAIN alert_sources :
                /\ \A j \in 1..Len(alert_sources'[k].items) :
                      IsUnmarked(alert_sources'[k].items[j])
                /\ (last'.op = "cleanup_simulation_items" \/ k # last'.name)
                      => IsCleaned(alert_sources[k], alert_sources'[k])
                /\ alert_sources'[k].fields = alert_sources[k].fields
                /\ alert_sources'[k].thresholds = alert_sources[k].thresholds
                /\ alert_sources'[k].settings = alert_sources[k].settings
           /\ disk' = SavedFile(config', alert_sources')]_vars

\* an event of the motion source was simulated, and the marked item of the
\* source Demo is gone while its other item stayed
C20_Witness ==
    /\ last.op = "simulate_event"
    /\ last.ok
    /\ last.name = "Motion_Sensor_Alert"
    /\ "Demo" \in DOMAIN alert_sources
    /\ alert_sources["Demo"].items = <<("id" :> IdDEM002) @@ ("val" :> StrB)>>
    /\ alert_sources["Demo"].fields = <<"val">>

\* C21: whenever simulate_event returns, whatever the event type passed
\* and whether or not an API base URL is configured, no item of any source
\* is marked _remove_after_simulation.
C21_CleanupAfterEverySimulate ==
    [][(last'.op = "simulate_event" /\ last'.ok)
        => \A k \in DOMAIN alert_sources' :
              \A j \in 1..Len(alert_sources'[k].items) :
                  IsUnmarked(alert_sources'[k].items[j])]_vars

\* the typed status or severity is one of the possible ones
TypedAccepted(in, possible) ==
    Strip(Capitalize(in.status)) # <<>> /\ Strip(Capitalize(in.status)) \in possible

\* the fields of the event data whose value is a line the operator typed
OperatorSupplied(event_type, in) ==
    IF ~in.manual THEN {}
    ELSE IF event_type \in SensorEventTypes
    THEN {f \in {"location"} : Strip(in.location) # <<>>}
         \cup {f \in {"status"} : TypedAccepted(in, PossibleStatuses(event_type))}
    ELSE IF event_type = "SIEM_Alert"
    THEN {f \in {"severity"} : TypedAccepted(in, PossibleSeverities)}
    ELSE {}

\* C22: in manual mode every value the operator supplies is validated
\* against the threshold of its field before the envelope is assembled: no
\* envelope is emitted whose data holds an operator-supplied value that
\* validate_field_value rejects for the source of the event.
C22_ManualValuesValidated ==
    [][(last'.op = "simulate_event")
        => \A n \in 1..Len(last'.arg.events) :
              \A f \in OperatorSupplied(last'.name, last'.arg.in) :
                  ValidateAgainst(alert_sources[last'.name].thresholds, f,
                                  last'.arg.events[n].data[f]).ok]_vars

\* C23: simulate_event with an event type that is none of the six
\* recognized names reports the unknown-event-type error and returns: no
\* envelope is emitted, the operator is asked nothing, and the registry,
\* the config and the file stay as they were.
C23_UnknownEventType ==
    [][(last'.op = "simulate_event" /\ last'.name \notin ValidEventTypes)
        => /\ last'.ok
           /\ last'.err = "unknown event type"
           /\ last'.arg.events = <<>>
           /\ last'.arg.asked = 0
           /\ alert_sources' = alert_sources
           /\ config' = config
           /\ disk' = disk]_vars

\* a manual event of the registered source Demo was asked for, and the
\* item of Demo left marked for removal is still there
C23_Witness ==
    /\ last.op = "simulate_event"
    /\ last.name = "Demo"
    /\ last.arg.in.manual
    /\ last.err = "unknown event type"
    /\ "Demo" \in DOMAIN alert_sources
    /\ Len(alert_sources["Demo"].items) = 2
    /\ ~IsUnmarked(alert_sources["Demo"].items[1])

\* C24: simulate_event with a well-known event type whose source is not
\* registered (it was removed) fails with the unknown-event-type error and
\* changes nothing, and fails in no other way; and simulate_event with the
\* name of a registered source never gives the unknown-event-type error.
C24_RegisteredIsSimulatable ==
    [][(last'.op = "simulate_event")
        => /\ (last'.name \in ValidEventTypes /\ last'.name \notin DOMAIN alert_sources)
                => /\ last'.ok
                   /\ last'.err = "unknown event type"
                   /\ alert_sources' = alert_sources
                   /\ config' = config
                   /\ disk' = disk
           /\ (last'.name \in DOMAIN alert_sources)
                => last'.err # "unknown event type"]_vars

\* the keys an item may have besides the fields of its source
ReservedItemKeys == {"id", "auto_generated", "_remove_after_simulation"}

\* C25: in every reachable state the keys of every item of every source,
\* added explicitly or created by a detail routine, are among the fields
\* of the source and id, auto_generated and _remove_after_simulation.
C25_ItemKeySet ==
    \A source \in DOMAIN alert_sources :
        \A i \in 1..Len(alert_sources[source].items) :
            DOMAIN alert_sources[source].items[i]
                \subseteq {alert_sources[source].fields[n] :
                               n \in 1..Len(alert_sources[source].fields)}
                          \cup ReservedItemKeys

\* C26: every source created through the add-source operation, called
\* directly or through the menu, has a non-empty field list: a call with
\* an empty field list creates no source.
C26_CreatedWithFields ==
    [][(last'.op \in {"add_alert_source", "manage_alert_sources"})
        => \A k \in DOMAIN alert_sources' \ DOMAIN alert_sources :
              alert_sources'[k].fields # <<>>]_vars

\* a load_config call has returned or raised
Loaded == last.op = "load_config"

\* C27: load_config never raises to its caller; when the config file is
\* missing, is not valid JSON, holds a JSON value that is not an object, or
\* cannot be read, it returns the built-in default document.
C27_LoadNeverRaises ==
    (Loaded /\ last.arg.file.kind # "doc")
        => config = DictValue(load_default_config)

\* C28: for a file that holds a JSON object, the document load_config
\* returns has every top-level key of the file with the value of the file,
\* and each key of the defaults that the file lacks with its default value,
\* and no other key.
C28_MergeAdditiveTopLevel ==
    (Loaded /\ last.arg.file.kind = "doc")
        => /\ last.ok
           /\ config.type = "dict"
           /\ DOMAIN config.dict = DOMAIN last.arg.file.doc \cup DOMAIN load_default_config
           /\ \A k \in DOMAIN last.arg.file.doc : config.dict[k] = last.arg.file.doc[k]
           /\ \A k \in DOMAIN load_default_config \ DOMAIN last.arg.file.doc :
                  config.dict[k] = load_default_config[k]

\* a file with a SIEM_Alert entry that lacks default_severity and with old
\* items was loaded: the entry came back without default_severity
C28_Witness ==
    /\ Loaded
    /\ last.arg.file.kind = "doc"
    /\ DOMAIN last.arg.file.doc = {"SIEM_Alert", "items", "theme"}
    /\ DOMAIN config.dict["SIEM_Alert"] = {"thresholds"}
    /\ config.dict["items"] # EmptyMap
    /\ config.dict["Login_Alert"] = ("default_status" :> Success)

\* C29: loading a file, saving the unmodified result and loading again
\* gives the document of the first load; so it is for the simulator
\* constructed on a document with non-empty alert_sources and saved
\* without a modification.
C29_SaveLoadRoundTrip ==
    [][(last.op = "save_config" /\ last'.op = "load_config" /\ ~last.arg.migrated)
        => config' = last.arg.loaded]_vars

\* the simulator was constructed on a file with the source Demo and an
\* entry of its own, saved, and the file was loaded again
C29_Witness ==
    /\ Loaded
    /\ last.arg.file.kind = "doc"
    /\ disk = last.arg.file
    /\ {"alert_sources", "theme"} \subseteq DOMAIN config.dict
    /\ config.dict["alert_sources"] = ("Demo" :> NewSource(<<"val">>))
    /\ config.dict["theme"] = QuotedText
    /\ "Login_Alert" \in DOMAIN disk.doc

\* the stripped lines of the settings step that leads to the next state
StepAction == Lower(Strip(last'.arg.action))
StepKey == Strip(last'.arg.key)
StepValue == Strip(last'.arg.value)

\* the typed key is a key of the settings of the selected source
KeyPresent ==
    \E k \in DOMAIN alert_sources[last'.name].settings : SettingKeyChars(k) = StepKey

\* everything but the settings of the selected source is as it was
SettingsFrame ==
    /\ config' = config
    /\ DOMAIN alert_sources' = DOMAIN alert_sources
    /\ \A s \in DOMAIN alert_sources :
           /\ alert_sources'[s].fields = alert_sources[s].fields
           /\ alert_sources'[s].thresholds = alert_sources[s].thresholds
           /\ alert_sources'[s].items = alert_sources[s].items
           /\ s # last'.name => alert_sources'[s] = alert_sources[s]

SettingsUntouched == alert_sources' = alert_sources /\ disk' = disk

SettingsPersisted ==
    /\ disk' = FileOf(("alert_sources" :> alert_sources') @@ config')
    /\ load_config(disk')["alert_sources"] = alert_sources'

\* C30: on a selected source, adding a setting or editing a present one
\* sets exactly that key to the given value and saves; deleting a present
\* key removes exactly that key and saves; editing or deleting an absent
\* key changes nothing in memory or on disk; and no settings step changes
\* fields, thresholds, items, another source or the rest of the config.
C30_SettingsContract ==
    [][last'.op = "manage_settings" =>
        /\ SettingsFrame
        /\ last'.name = "" => SettingsUntouched
        /\ last'.name # "" =>
             /\ (StepAction = <<"a">> /\ StepKey # <<>>) \/ (StepAction = <<"e">> /\ KeyPresent)
                  => /\ DOMAIN alert_sources'[last'.name].settings =
                            DOMAIN alert_sources[last'.name].settings \cup {SettingNamed(StepKey)}
                     /\ alert_sources'[last'.name].settings[SettingNamed(StepKey)] = StepValue
                     /\ \A k \in DOMAIN alert_sources[last'.name].settings \ {SettingNamed(StepKey)} :
                            alert_sources'[last'.name].settings[k] =
                                alert_sources[last'.name].settings[k]
                     /\ SettingsPersisted
             /\ (StepAction = <<"d">> /\ KeyPresent)
                  => /\ DOMAIN alert_sources'[last'.name].settings =
                            DOMAIN alert_sources[last'.name].settings \ {SettingNamed(StepKey)}
                     /\ \A k \in DOMAIN alert_sources'[last'.name].settings :
                            alert_sources'[last'.name].settings[k] =
                                alert_sources[last'.name].settings[k]
                     /\ SettingsPersisted
             /\ (StepAction \in {<<"e">>, <<"d">>} /\ ~KeyPresent) => SettingsUntouched
    ]_vars

\* default_severity, the setting SIEM_Alert came with, was deleted from its
\* settings, the source picked by its name, after unit had been added and
\* edited: unit is left, and the file holds the same
C30_Witness ==
    /\ last.op = "manage_settings"
    /\ last.name = "SIEM_Alert"
    /\ last.arg.choice = Chars("SIEM_Alert")
    /\ last.ok
    /\ Lower(Strip(last.arg.action)) = <<"d">>
    /\ Strip(last.arg.key) = SettingKeyChars("default_severity")
    /\ alert_sources["SIEM_Alert"].settings = ("unit" :> StrB)
    /\ alert_sources["Demo"] = OrchDoc["alert_sources"]["Demo"]
    /\ disk.doc["alert_sources"] = alert_sources

\* a call of simulate_event begins with the step to the next state
CallBegins == ~InCall /\ last'.op \in {"details", "simulate_event"}

\* inside a call the statements follow one another: the envelope after the
\* detail routine, the questions after the envelope, the cleanup (and the
\* return) after the questions; no list has lost an item when the envelope
\* is printed, and the itemId of the envelope of a sensor event is the id
\* of an item of the source
OrderInsideCall ==
    /\ last'.op = "emit" => last.op = "details"
    /\ last'.op = "decide" => last.op = "emit"
    /\ (InCall /\ last'.op = "simulate_event") => last.op = "decide"
    /\ last'.op = "emit" => alert_sources' = alert_sources
    /\ last'.op = "details" =>
          \A k \in DOMAIN alert_sources :
              /\ k \in DOMAIN alert_sources'
              /\ Len(alert_sources'[k].items) >= Len(alert_sources[k].items)
    /\ (last'.op = "emit" /\ last'.name \in {"Motion_Sensor_Alert", "IR_Sensor_Alert"})
          => \E i \in 1..Len(alert_sources'[last'.name].items) :
                alert_sources'[last'.name].items[i]["id"] =
                    last'.arg.envelope.data.itemId

\* C31: in every call of simulate_event of a recognized type the detail
\* routine runs, then the envelope is emitted once, then the keep/discard
\* decisions are taken, then the cleanup runs; an emitted motion or IR
\* envelope carries the id of an item present in the source.
C31_OrderedEmission ==
    [][/\ (CallBegins /\ last'.name \in ValidEventTypes) => last'.op = "details"
       /\ OrderInsideCall]_vars

\* C31, for the calls whose detail routine returns: the order of the
\* statements and the itemId of the envelope.
C31_OrderWhenRoutineReturns == [][OrderInsideCall]_vars

\* no item of any source is flagged auto_generated or marked for removal
NoneFlagged(sources) ==
    \A k \in DOMAIN sources :
        \A j \in 1..Len(sources[k].items) :
            /\ ~Truthy(sources[k].items[j], "auto_generated")
            /\ ~Truthy(sources[k].items[j], "_remove_after_simulation")

\* C32: simulate_event for SIEM_Alert, Login_Alert, Smart_Fence_Alert or
\* Location_Based_Alert, on a registry in which no item is flagged
\* auto_generated or marked for removal, leaves the fields, thresholds,
\* settings and items of every source as they were and asks for no
\* keep-or-discard decision: the operator is asked the lines of the detail
\* routine and nothing else.
C32_ItemlessTypesFrame ==
    [][(/\ last'.op = "simulate_event"
        /\ last'.name \in FrameEventTypes
        /\ NoneFlagged(alert_sources))
        => /\ alert_sources' = alert_sources
           /\ last'.arg.answers = <<>>
           /\ last'.arg.asked = IF last'.name \in DOMAIN alert_sources
                                THEN AskedByRoutine(last'.name, last'.arg.in)
                                ELSE 0]_vars

\* a manual Location_Based_Alert event went out after an earlier Login_Alert
\* call had kept LOG-002 and cleaned the marked fence item away: the call
\* ran on a registry without flagged items, which still holds its items
C32_Witness ==
    /\ last.op = "simulate_event"
    /\ last.name = "Location_Based_Alert"
    /\ last.ok
    /\ last.arg.in.manual
    /\ Len(last.arg.events) = 1
    /\ last.arg.asked = 5
    /\ NoneFlagged(alert_sources)
    /\ "Login_Alert" \in DOMAIN alert_sources
    /\ Len(alert_sources["Login_Alert"].items) = 2
    /\ "SIEM_Alert" \in DOMAIN alert_sources
    /\ Len(alert_sources["SIEM_Alert"].items) = 1

\* the position of the item the lookup of the step finds in the source of
\* the event, 0 without one
HitOfStep ==
    IF last'.name \in DOMAIN alert_sources
    THEN FindByLocation(alert_sources[last'.name].items, SensorLocation(last'.arg.in))
    ELSE 0

\* the status the step gives to the item of its location
StatusOfStep ==
    SensorStatus(last'.arg.in, PossibleStatuses(last'.name),
                 DefaultStatus(alert_sources[last'.name].settings))

\* C33: when the lookup of a motion or IR event finds an item that is not
\* flagged auto_generated, the call only sets the tracked value of that
\* item: after simulate_event has returned the item is in the source with
\* the same id and the same keys and values but for value, which is the
\* status of the event, it carries no auto_generated flag, and the
\* keep-or-discard questions asked are those about the other, flagged
\* items, none about the item found.
C33_HitOnPermanentItem ==
    [][(/\ SensorSimulated'
        /\ HitOfStep > 0
        /\ ~Truthy(alert_sources[last'.name].items[HitOfStep], "auto_generated"))
        => /\ \E j \in 1..Len(alert_sources'[last'.name].items) :
                alert_sources'[last'.name].items[j]
                    = ("value" :> StatusOfStep) @@ alert_sources[last'.name].items[HitOfStep]
           /\ Len(last'.arg.answers)
                = Cardinality(FlaggedAuto(alert_sources[last'.name].items))]_vars

\* a manual motion event for the location A with the typed status clear
\* found the explicit item MOT-001, which has no name: it is the only item,
\* unflagged, and its value is Clear
C33_Witness ==
    /\ SensorSimulated
    /\ last.name = "Motion_Sensor_Alert"
    /\ last.arg.in.manual
    /\ last.arg.in.status = <<"c", "l", "e", "a", "r">>
    /\ last.arg.answers = <<>>
    /\ alert_sources["Motion_Sensor_Alert"].items =
          <<("id" :> IdMOT001) @@ ("location" :> StrA) @@ ("value" :> Clear)>>

\* the text of a mapping threshold with one key, as str() gives it
OneSidedText(d) ==
    IF DOMAIN d = {"min"} /\ d["min"] = 1 THEN StrMinOnly
    ELSE IF DOMAIN d = {"max"} /\ d["max"] = 10 THEN StrMaxOnly
    ELSE <<>>

\* C34: validate_field_value takes the range branch only for a mapping
\* that holds both min and max: then the outcome is that of the numeric
\* check.  A mapping that lacks min or max goes to the exact-match branch:
\* the value is accepted only if it is the text of the whole mapping, every
\* other value is rejected with "must be exactly", a number within the one
\* bound as well as one beyond it, and never with a message of the range
\* branch.
C34_RuleShapeDispatch ==
    (Validated /\ HasThreshold /\ CalledThreshold.kind = "dict")
        => IF {"min", "max"} \subseteq DOMAIN CalledThreshold.dict
           THEN /\ last.err \in {"none", "must be a number", "must be between"}
                /\ ~PyFloat(last.arg.value).ok => last.err = "must be a number"
           ELSE /\ last.ok <=> last.arg.value = OneSidedText(CalledThreshold.dict)
                /\ ~last.ok => last.err = "must be exactly"
                /\ last.arg.value \in {<<"0">>, <<"5">>, <<"1", "1">>, <<"a">>} => ~last.ok

\* the value 5 was rejected against the mapping {"min": 1}, though 5 >= 1
C34_Witness ==
    /\ Validated
    /\ HasThreshold
    /\ CalledThreshold = DictT("min" :> 1)
    /\ last.arg.value = <<"5">>
    /\ ~last.ok
    /\ last.err = "must be exactly"

\* the ids of the items are prefix-001, prefix-002, ... in the order of the list
NumberedFromOne(items, prefix) ==
    \A i \in 1..Len(items) :
        "id" \in DOMAIN items[i] /\ IsIdNumbered(items[i]["id"], prefix, i)

\* C35: explicit adds work for every source name, a name with a dash among
\* its first three characters included: an add_item_to_source on a source
\* whose items are numbered PREFIX-001 to PREFIX-00n by the adds before it
\* (none for the empty source) does not fail in the id allocation, and where
\* it succeeds the items are numbered PREFIX-001 to PREFIX-00(n+1).
C35_AddsNumberedForEveryName ==
    [][(/\ last'.op = "add_item_to_source"
        /\ NumberedFromOne(alert_sources[last'.name].items, ItemIdPrefix(last'.name)))
        => /\ last'.err # "raised"
           /\ last'.ok =>
                /\ Len(alert_sources'[last'.name].items)
                      = Len(alert_sources[last'.name].items) + 1
                /\ NumberedFromOne(alert_sources'[last'.name].items,
                                   ItemIdPrefix(last'.name))]_vars

====
